---- MODULE Spec2Model ----
(***************************************************************************)
(* Model of the portal-fmea client (src/src/App.tsx, first App component,  *)
(* with src/src/services/portal.ts and the useAuth hook).                  *)
(*                                                                         *)
(* The document store is shared by every session; a session is one mounted *)
(* App component (one browser tab).  Each session keeps React state: the   *)
(* signed-in user, the loaded profile, the current view and the four lists *)
(* filled by the live subscriptions.  A list is the last snapshot the      *)
(* session received, so it can lag behind the store.                       *)
(*                                                                         *)
(* Not modelled: display-only fields (names, titles, dates, priority,      *)
(* checklist), modal open flags, loading flags, the listeners' error       *)
(* callbacks, and the page limits of the list queries (PAGE_SIZE is not    *)
(* part of the sources at hand).                                           *)
(***************************************************************************)
EXTENDS Integers, Sequences, FiniteSets, TLC

\* ---------------------------------------------------------------- bounds
MaxNotifs == 2        \* notification documents the store may hold
MaxToasts == 1        \* toasts a session shows at once
MaxTime == 3          \* last clock value
MaxComments == 2      \* comments on one delivery
MaxDeliveryId == 2   \* last id the delivery form may create
MaxProjDeliveries == 201 \* deliveries of the project in the cascade scenario
MaxSafetyDocs == 1

\* ------------------------------------------------------- program constants
CascadeLimit == 200   \* limit(200) of the cascade query
MinPasswordLen == 6   \* password.length < 6
MinNameLen == 3       \* cleanName.length < 3

\* ------------------------------------------------------------- universes
None == "none"
Sessions == {"s1", "s2"}
Uids == {"A1", "A2", "U1", "U2"}
ProjectIds == {"P1", "P2"}

UserRole == {"ADMIN", "PRESTADOR"}
UserStatus == {"PENDING", "ACTIVE", "REJECTED", "DELETED"}
Status == {"PENDENTE", "REVISAO", "AJUSTES", "APROVADO", "ATRASADO"}
NotifType == {"COMMENT", "SUBMITTED", "APPROVED", "ADJUST_REQUESTED"}

VARIABLES
  dbUsers,          \* collection "users":         uid -> profile
  dbProjects,       \* collection "projects":      id  -> project
  dbDeliveries,     \* collection "deliveries":    id  -> delivery
  dbNotifications,  \* collection "notifications": sequence, id = index
  nextDeliveryId,   \* ids handed out by addDoc are never reused
  nextCommentId,    \* ids of comments are never reused
  dbSafetyDocs,     \* subcollections "providers/{uid}/safetyDocs": sequence of records
  now,              \* Date.now()
  user,             \* per session: uid of the signed-in identity, or None
  profile,          \* per session: loaded profile, or NoProfile
  authPending,      \* per session: uid whose profile read (getDoc) is in flight, or None
  authFlow,         \* per session: pending writes of the auth listener and of the auth service
  accounts,         \* identities registered with the identity provider
  view,             \* per session: ViewState
  usersList,        \* per session: last users snapshot
  projects,         \* per session: last projects snapshot
  deliveries,       \* per session: last deliveries snapshot
  notifications,    \* per session: last notifications snapshot
  selectedDeliveryId,
  deliveryForm,     \* per session: project and provider chosen in the form
  inflight,         \* per session: notification writes a handler still awaits
  batch,            \* per session: deleteProject between getDocs and commit
  toasts            \* per session: toasts on screen, newest first

dbVars == <<dbUsers, dbProjects, dbDeliveries, dbNotifications, nextDeliveryId, nextCommentId, dbSafetyDocs, now>>
authVars == <<user, profile, authPending, authFlow, accounts>>
listVars == <<usersList, projects, deliveries, notifications>>
uiVars == <<view, selectedDeliveryId, deliveryForm, inflight, batch, toasts>>
vars == <<dbVars, authVars, listVars, uiVars>>

\* ------------------------------------------------------------- helpers
Restrict(f, S) == [x \in S |-> f[x]]

Remove(f, S) == [x \in DOMAIN f \ S |-> f[x]]

RECURSIVE SetToSeq(_)
SetToSeq(S) == IF S = {} THEN <<>>
               ELSE LET x == CHOOSE y \in S : TRUE
                    IN  <<x>> \o SetToSeq(S \ {x})

\* the k smallest elements of a set of integers
Smallest(S, k) == {x \in S : Cardinality({y \in S : y < x}) < k}

\* a profile state of null
NoProfile == [uid |-> None, role |-> None, status |-> None, active |-> FALSE, deletedAt |-> 0]

Empty == [x \in {} |-> x]

NoForm == [open |-> FALSE, projectId |-> "", providerUid |-> ""]
NoWrites == [op |-> "", out |-> {}]
NoBatch == [active |-> FALSE, projectId |-> "", refs |-> {}]
\* no profile write of the auth listener or of the auth service is pending
NoFlow == [listener |-> "idle", service |-> "idle", uid |-> None, snap |-> NoProfile]

\* useToasts.push: newest toast first
Push(s, type, title) ==
  /\ Len(toasts[s]) < MaxToasts
  /\ toasts' = [toasts EXCEPT ![s] = <<[type |-> type, title |-> title]>> \o @]

\* useToasts: the 3.5 s timer drops a toast; timers fire in creation order,
\* so the oldest goes first (the close button is not modelled)
ToastClose(s) ==
  /\ toasts[s] # <<>>
  /\ toasts' = [toasts EXCEPT ![s] = SubSeq(@, 1, Len(@) - 1)]
  /\ UNCHANGED <<dbVars, authVars, listVars, view, selectedDeliveryId, deliveryForm, inflight, batch>>

\* ------------------------------------------------------- render conditions
\* Subscribed without the test of profile.active
SubscribedAnyProfile(s) == user[s] # None /\ profile[s] # NoProfile

\* App.tsx:227-228, the guard of the live-subscription effect
Subscribed(s) == user[s] # None /\ profile[s] # NoProfile /\ profile[s].active

\* App.tsx:1024-1060, the app shell is rendered (neither login nor pending)
ShellRendered(s) ==
  /\ user[s] # None /\ profile[s] # NoProfile
  /\ ~(~profile[s].active \/ profile[s].status # "ACTIVE")

\* the shell is rendered and no modal covers it
Clickable(s) == ShellRendered(s) /\ ~deliveryForm[s].open

\* useAuth: role = profile?.role ?? null
role(s) == profile[s].role

\* App.tsx:221-224, selectedDelivery is not null
HasSelectedDelivery(s) == selectedDeliveryId[s] \in DOMAIN deliveries[s]

selectedDelivery(s) == deliveries[s][selectedDeliveryId[s]]

\* ------------------------------------------------------------ query helpers
\* portal.ts:106-125
getBaseUsersQuery(isAdmin) ==
  IF isAdmin THEN DOMAIN dbUsers
  ELSE {u \in DOMAIN dbUsers : dbUsers[u].status = "ACTIVE" /\ dbUsers[u].active}

\* portal.ts:127-144
getBaseProjectsQuery(isAdmin, uid) ==
  IF isAdmin THEN DOMAIN dbProjects
  ELSE {p \in DOMAIN dbProjects : uid \in dbProjects[p].memberUids}

\* portal.ts:146-163
getBaseDeliveriesQuery(isAdmin, uid) ==
  IF isAdmin THEN DOMAIN dbDeliveries
  ELSE {d \in DOMAIN dbDeliveries : dbDeliveries[d].providerUid = uid}

\* App.tsx:293
notifQ(uid) == {n \in DOMAIN dbNotifications : dbNotifications[n].toUid = uid}

\* ------------------------------------------------------ live subscriptions
\* App.tsx:234-251: users listener, DELETED filtered on the client
SnapshotUsers(s) ==
  /\ Subscribed(s)
  /\ LET q == getBaseUsersQuery(profile[s].role = "ADMIN")
         arr == {u \in q : dbUsers[u].status # "DELETED"}
     IN  usersList' = [usersList EXCEPT ![s] = Restrict(dbUsers, arr)]
  /\ UNCHANGED <<dbVars, authVars, projects, deliveries, notifications, uiVars>>

\* App.tsx:253-272: projects listener
SnapshotProjects(s) ==
  /\ Subscribed(s)
  /\ LET q == getBaseProjectsQuery(profile[s].role = "ADMIN", user[s])
     IN  projects' = [projects EXCEPT ![s] = Restrict(dbProjects, q)]
  /\ UNCHANGED <<dbVars, authVars, usersList, deliveries, notifications, uiVars>>

\* App.tsx:274-290: deliveries listener
SnapshotDeliveries(s) ==
  /\ Subscribed(s)
  /\ LET q == getBaseDeliveriesQuery(profile[s].role = "ADMIN", user[s])
     IN  deliveries' = [deliveries EXCEPT ![s] = Restrict(dbDeliveries, q)]
  /\ UNCHANGED <<dbVars, authVars, usersList, projects, notifications, uiVars>>

\* App.tsx:292-304: notifications listener
SnapshotNotifications(s) ==
  /\ Subscribed(s)
  /\ notifications' = [notifications EXCEPT ![s] = Restrict(dbNotifications, notifQ(user[s]))]
  /\ UNCHANGED <<dbVars, authVars, usersList, projects, deliveries, uiVars>>

\* --------------------------------------------------------------- navigation
\* Sidebar items shown for each role (layout/Sidebar.tsx)
NavItems(r) == IF r = "ADMIN"
               THEN {"DASHBOARD", "PROJETOS", "ENTREGAS", "USUARIOS", "PRESTADORES", "PERFIL"}
               ELSE {"DASHBOARD", "PROJETOS", "ENTREGAS", "PERFIL"}

\* App.tsx:1063-1067
onNav(s, v) ==
  /\ Clickable(s)
  /\ v \in NavItems(role(s))
  /\ view[s] # v
  /\ view' = [view EXCEPT ![s] = v]
  /\ selectedDeliveryId' = [selectedDeliveryId EXCEPT ![s] = IF v # "DETALHE_ENTREGA" THEN 0 ELSE @]
  /\ UNCHANGED <<dbVars, authVars, listVars, deliveryForm, inflight, batch, toasts>>

\* App.tsx:1754, a card of the ENTREGAS view is clicked
OpenDelivery(s, d) ==
  /\ Clickable(s)
  /\ view[s] = "ENTREGAS"
  /\ d \in DOMAIN deliveries[s]
  /\ selectedDeliveryId' = [selectedDeliveryId EXCEPT ![s] = d]
  /\ view' = [view EXCEPT ![s] = "DETALHE_ENTREGA"]
  /\ UNCHANGED <<dbVars, authVars, listVars, deliveryForm, inflight, batch, toasts>>

\* ------------------------------------------------------ notification fan-out
Notif(to, type, d, id) == [toUid |-> to, type |-> type, deliveryId |-> id, read |-> FALSE]

\* App.tsx:641 and 673: the admins the session's users list shows
ListedAdmins(s) ==
  {u \in DOMAIN usersList[s] :
     usersList[s][u].role = "ADMIN" /\ usersList[s][u].active /\ usersList[s][u].status = "ACTIVE"}

\* StatusNotifs with the contractor's notification addressed to the acting
\* admin instead of the delivery's provider
StatusNotifsToSelf(s, id, d, newStatus) ==
  (IF profile[s].role = "PRESTADOR" /\ newStatus = "REVISAO"
   THEN {Notif(a, "SUBMITTED", d, id) : a \in ListedAdmins(s)} ELSE {})
  \cup
  (IF profile[s].role = "ADMIN" /\ newStatus = "AJUSTES" /\ d.providerUid # ""
   THEN {Notif(user[s], "ADJUST_REQUESTED", d, id)} ELSE {})
  \cup
  (IF profile[s].role = "ADMIN" /\ newStatus = "APROVADO" /\ d.providerUid # ""
   THEN {Notif(user[s], "APPROVED", d, id)} ELSE {})

\* App.tsx:672-711: the notification documents one status change writes;
\* d is the delivery as the session's list holds it
StatusNotifs(s, id, d, newStatus) ==
  (IF profile[s].role = "PRESTADOR" /\ newStatus = "REVISAO"
   THEN {Notif(a, "SUBMITTED", d, id) : a \in ListedAdmins(s)} ELSE {})
  \cup
  (IF profile[s].role = "ADMIN" /\ newStatus = "AJUSTES" /\ d.providerUid # ""
   THEN {Notif(d.providerUid, "ADJUST_REQUESTED", d, id)} ELSE {})
  \cup
  (IF profile[s].role = "ADMIN" /\ newStatus = "APROVADO" /\ d.providerUid # ""
   THEN {Notif(d.providerUid, "APPROVED", d, id)} ELSE {})

\* notification writes every session still awaits
Awaited == UNION {inflight[s].out : s \in Sessions}

\* room for the documents a handler is about to add
NotifRoom(S) == Len(dbNotifications) + Cardinality(Awaited) + Cardinality(S) <= MaxNotifs

\* ------------------------------------------------------- status transitions
\* portal.ts:85-87 with { status }: updateDoc rejects when the document is gone
updateDeliveryStatus(id, newStatus) ==
  /\ id \in DOMAIN dbDeliveries
  /\ dbDeliveries' = [dbDeliveries EXCEPT ![id].status = newStatus]

\* App.tsx:669-711: the status write went through; the success toast is
\* pushed and the notification writes start (kept in inflight until they settle)
StatusWritten(s, id, newStatus) ==
  LET out == StatusNotifs(s, id, deliveries[s][id], newStatus)
  IN  /\ updateDeliveryStatus(id, newStatus)
      /\ NotifRoom(out)
      /\ Push(s, "success", "Status atualizado")
      /\ inflight' = [inflight EXCEPT ![s] = IF out = {} THEN NoWrites
                                              ELSE [op |-> "status", out |-> out]]

\* a rejected status write whose handler goes on to notify
StatusRejectedNotifies(s, id, newStatus) ==
  /\ Push(s, "error", "Erro ao atualizar status")
  /\ inflight' = [inflight EXCEPT ![s] = [op |-> "status",
                     out |-> {Notif(user[s], "SUBMITTED", deliveries[s][id], id)}]]
  /\ UNCHANGED dbDeliveries

\* App.tsx:712-714: the status write was rejected by the store
StatusRejected(s, id, newStatus) ==
  /\ Push(s, "error", "Erro ao atualizar status")
  /\ UNCHANGED <<dbDeliveries, inflight>>

\* App.tsx:662-715: setDeliveryStatus up to the end of its first await
setDeliveryStatus(s, id, newStatus) ==
  /\ profile[s] # NoProfile /\ user[s] # None
  /\ id \in DOMAIN deliveries[s]
  /\ inflight[s] = NoWrites
  /\ \/ StatusWritten(s, id, newStatus)
     \/ StatusRejected(s, id, newStatus)
  /\ UNCHANGED <<dbUsers, dbProjects, dbNotifications, nextDeliveryId, nextCommentId, dbSafetyDocs, now>>
  /\ UNCHANGED <<authVars, listVars, view, selectedDeliveryId, deliveryForm, batch>>

\* status buttons with one more button, for ATRASADO, shown to admins
StatusButtonsWithLate(s) ==
  IF ~(Clickable(s) /\ view[s] = "DETALHE_ENTREGA" /\ HasSelectedDelivery(s)) THEN {}
  ELSE (IF role(s) = "PRESTADOR" /\ selectedDelivery(s).status # "APROVADO"
        THEN {"REVISAO"} ELSE {})
       \cup
       (IF role(s) = "ADMIN" THEN {"APROVADO", "AJUSTES", "ATRASADO"} ELSE {})

\* App.tsx:1806-1823: the status buttons of the delivery detail view
StatusButtons(s) ==
  IF ~(Clickable(s) /\ view[s] = "DETALHE_ENTREGA" /\ HasSelectedDelivery(s)) THEN {}
  ELSE (IF role(s) = "PRESTADOR" /\ selectedDelivery(s).status # "APROVADO"
        THEN {"REVISAO"} ELSE {})
       \cup
       (IF role(s) = "ADMIN" /\ selectedDelivery(s).status = "REVISAO"
        THEN {"APROVADO", "AJUSTES"} ELSE {})

ClickStatus(s, newStatus) ==
  /\ newStatus \in StatusButtons(s)
  /\ setDeliveryStatus(s, selectedDeliveryId[s], newStatus)

\* NotifySettle with a catch block that writes the status the session's list
\* shows back to the delivery when a notification write is rejected
NotifySettleRollback(s) ==
  /\ inflight[s] # NoWrites
  /\ \E ok \in SUBSET inflight[s].out :
       /\ dbNotifications' = dbNotifications \o SetToSeq(ok)
       /\ IF ok # inflight[s].out
          THEN /\ Push(s, "error", "Erro ao atualizar status")
               /\ LET id == (CHOOSE m \in inflight[s].out : TRUE).deliveryId
                  IN  dbDeliveries' =
                        IF id \in DOMAIN dbDeliveries /\ id \in DOMAIN deliveries[s]
                        THEN [dbDeliveries EXCEPT ![id].status = deliveries[s][id].status]
                        ELSE dbDeliveries
          ELSE UNCHANGED <<toasts, dbDeliveries>>
  /\ inflight' = [inflight EXCEPT ![s] = NoWrites]
  /\ UNCHANGED <<dbUsers, dbProjects, nextDeliveryId, nextCommentId, dbSafetyDocs, now>>
  /\ UNCHANGED <<authVars, listVars, view, selectedDeliveryId, deliveryForm, batch>>

\* App.tsx:674-711 (and 642-654): the awaited addDoc calls settle; each one
\* is written or rejected on its own, and a rejection reaches the catch block
NotifySettle(s) ==
  /\ inflight[s] # NoWrites
  /\ \E ok \in SUBSET inflight[s].out :
       /\ dbNotifications' = dbNotifications \o SetToSeq(ok)
       /\ IF ok # inflight[s].out
          THEN Push(s, "error", IF inflight[s].op = "status" THEN "Erro ao atualizar status"
                                ELSE "Erro ao publicar comentario")
          ELSE UNCHANGED toasts
  /\ inflight' = [inflight EXCEPT ![s] = NoWrites]
  /\ UNCHANGED <<dbUsers, dbProjects, dbDeliveries, nextDeliveryId, nextCommentId, dbSafetyDocs, now>>
  /\ UNCHANGED <<authVars, listVars, view, selectedDeliveryId, deliveryForm, batch>>

\* ------------------------------------------------------------ notifications
\* markAllNotificationsRead writing { read: !n.read } for every listed notification
markAllNotificationsToggle(s) ==
  /\ user[s] # None
  /\ LET listed == DOMAIN notifications[s]
     IN  \E ok \in SUBSET listed :
           /\ dbNotifications' = [n \in DOMAIN dbNotifications |->
                                    IF n \in ok
                                    THEN [dbNotifications[n] EXCEPT !.read = ~notifications[s][n].read]
                                    ELSE dbNotifications[n]]
           /\ IF ok = listed THEN Push(s, "success", "Notificacoes marcadas como lidas")
              ELSE Push(s, "error", "Erro ao marcar notificacoes")
  /\ UNCHANGED <<dbUsers, dbProjects, dbDeliveries, nextDeliveryId, nextCommentId, dbSafetyDocs, now>>
  /\ UNCHANGED <<authVars, listVars, view, selectedDeliveryId, deliveryForm, inflight, batch>>

\* App.tsx:717-726; each updateDoc is written or rejected on its own
markAllNotificationsRead(s) ==
  /\ user[s] # None
  /\ LET unread == {n \in DOMAIN notifications[s] : ~notifications[s][n].read}
     IN  \E ok \in SUBSET unread :
           /\ dbNotifications' = [n \in DOMAIN dbNotifications |->
                                    IF n \in ok THEN [dbNotifications[n] EXCEPT !.read = TRUE]
                                    ELSE dbNotifications[n]]
           /\ IF ok = unread THEN Push(s, "success", "Notificacoes marcadas como lidas")
              ELSE Push(s, "error", "Erro ao marcar notificacoes")
  /\ UNCHANGED <<dbUsers, dbProjects, dbDeliveries, nextDeliveryId, nextCommentId, dbSafetyDocs, now>>
  /\ UNCHANGED <<authVars, listVars, view, selectedDeliveryId, deliveryForm, inflight, batch>>

\* App.tsx:214
unreadNotifCount(s) == Cardinality({n \in DOMAIN notifications[s] : ~notifications[s][n].read})

\* App.tsx:1353-1357: the button of the admin dashboard
ClickMarkAllRead(s) ==
  /\ Clickable(s) /\ view[s] = "DASHBOARD" /\ role(s) = "ADMIN"
  /\ unreadNotifCount(s) # 0
  /\ markAllNotificationsRead(s)

\* ----------------------------------------------------------------- comments
\* App.tsx:624-638: the whole comments array is written back
CommentWritten(s, id) ==
  LET d == deliveries[s][id]
      next == Append(d.comments, [id |-> nextCommentId, authorUid |-> user[s]])
      out == IF profile[s].role = "PRESTADOR"
             THEN {Notif(a, "COMMENT", d, id) : a \in ListedAdmins(s)} ELSE {}
  IN  /\ id \in DOMAIN dbDeliveries
      /\ nextCommentId <= MaxComments
      /\ dbDeliveries' = [dbDeliveries EXCEPT ![id].comments = next]
      /\ nextCommentId' = nextCommentId + 1
      /\ UNCHANGED dbSafetyDocs
      /\ NotifRoom(out)
      /\ Push(s, "success", "Comentario publicado")
      /\ inflight' = [inflight EXCEPT ![s] = IF out = {} THEN NoWrites
                                              ELSE [op |-> "comment", out |-> out]]

\* App.tsx:656-658
CommentRejected(s, id) ==
  /\ Push(s, "error", "Erro ao publicar comentario")
  /\ UNCHANGED <<dbDeliveries, nextCommentId, dbSafetyDocs, inflight>>

\* App.tsx:615-659: addComment with a non-empty text, up to its first await
addComment(s, id) ==
  /\ profile[s] # NoProfile /\ user[s] # None
  /\ id \in DOMAIN deliveries[s]
  /\ inflight[s] = NoWrites
  /\ \/ CommentWritten(s, id)
     \/ CommentRejected(s, id)
  /\ UNCHANGED <<dbUsers, dbProjects, dbNotifications, nextDeliveryId, now>>
  /\ UNCHANGED <<authVars, listVars, view, selectedDeliveryId, deliveryForm, batch>>

\* App.tsx:1860: the Publicar button of the delivery detail view
ClickPublish(s) ==
  /\ Clickable(s) /\ view[s] = "DETALHE_ENTREGA" /\ HasSelectedDelivery(s)
  /\ addComment(s, selectedDeliveryId[s])

\* ---------------------------------------------------------- user management
\* an approval that sets the role and the status and leaves active alone
approveUserStatusOnly(uid, newRole) ==
  /\ uid \in DOMAIN dbUsers
  /\ dbUsers' = [dbUsers EXCEPT ![uid].role = newRole, ![uid].status = "ACTIVE"]

\* portal.ts:25-32 (approvedAt is not modelled)
approveUserSvc(uid, newRole) ==
  /\ uid \in DOMAIN dbUsers
  /\ dbUsers' = [dbUsers EXCEPT ![uid].role = newRole, ![uid].status = "ACTIVE", ![uid].active = TRUE]

\* a rejection that writes the status of a removal
rejectUserAsDelete(uid) ==
  /\ uid \in DOMAIN dbUsers
  /\ dbUsers' = [dbUsers EXCEPT ![uid].status = "DELETED", ![uid].active = FALSE]

\* portal.ts:34-39
rejectUserSvc(uid) ==
  /\ uid \in DOMAIN dbUsers
  /\ dbUsers' = [dbUsers EXCEPT ![uid].status = "REJECTED", ![uid].active = FALSE]

\* portal.ts:41-47
softDeleteUser(uid) ==
  /\ uid \in DOMAIN dbUsers
  /\ dbUsers' = [dbUsers EXCEPT ![uid].status = "DELETED", ![uid].active = FALSE,
                                ![uid].deletedAt = now]

UserOpFrame ==
  /\ UNCHANGED <<dbProjects, dbDeliveries, dbNotifications, nextDeliveryId, nextCommentId, dbSafetyDocs, now>>
  /\ UNCHANGED <<authVars, listVars, view, selectedDeliveryId, deliveryForm, inflight, batch>>

\* App.tsx:423-430
approveUser(s, u, newRole) ==
  /\ \/ approveUserSvc(u, newRole) /\ Push(s, "success", "Usuario aprovado")
     \/ UNCHANGED dbUsers /\ Push(s, "error", "Erro ao aprovar usuario")
  /\ UserOpFrame

\* App.tsx:432-439
rejectUser(s, u) ==
  /\ \/ rejectUserSvc(u) /\ Push(s, "info", "Usuario rejeitado")
     \/ UNCHANGED dbUsers /\ Push(s, "error", "Erro ao rejeitar usuario")
  /\ UserOpFrame

\* App.tsx:441-449, the confirm dialog answered with OK
removeUser(s, u) ==
  /\ \/ softDeleteUser(u) /\ Push(s, "success", "Usuario removido")
     \/ UNCHANGED dbUsers /\ Push(s, "error", "Erro ao remover usuario")
  /\ UserOpFrame

\* App.tsx:1433, the USUARIOS view of an admin
UsersViewShown(s) == Clickable(s) /\ view[s] = "USUARIOS" /\ role(s) = "ADMIN"

\* App.tsx:1445: rows of the pending card
PendingRows(s) == {u \in DOMAIN usersList[s] : usersList[s][u].status = "PENDING"}

\* App.tsx:1475: rows of the active card
ActiveRows(s) == {u \in DOMAIN usersList[s] : usersList[s][u].status = "ACTIVE"}

\* App.tsx:1453-1454
ClickApprove(s, u, newRole) == UsersViewShown(s) /\ u \in PendingRows(s) /\ approveUser(s, u, newRole)

\* App.tsx:1455
ClickReject(s, u) == UsersViewShown(s) /\ u \in PendingRows(s) /\ rejectUser(s, u)

\* App.tsx:1456 and 1483
ClickRemove(s, u) == UsersViewShown(s) /\ u \in PendingRows(s) \cup ActiveRows(s) /\ removeUser(s, u)

\* Date.now() advances
Tick ==
  /\ now < MaxTime
  /\ now' = now + 1
  /\ UNCHANGED <<dbUsers, dbProjects, dbDeliveries, dbNotifications, nextDeliveryId, nextCommentId, dbSafetyDocs>>
  /\ UNCHANGED <<authVars, listVars, uiVars>>

\* ------------------------------------------------------------------- auth
\* the view useAuth enters for a loaded profile (useAuth:112-116)
\* an entry view computed from the role alone
EntryViewByRole(p) == IF p.role = "ADMIN" THEN "DASHBOARD" ELSE "ENTREGAS"

EntryView(p) == IF ~p.active \/ p.status # "ACTIVE" THEN "PENDING"
                ELSE IF p.role = "ADMIN" THEN "DASHBOARD" ELSE "ENTREGAS"

\* useAuth:78-89: the auth-state listener fires for the registered identity u
\* (a sign-in, or the persisted identity at mount); the profile read starts
SignIn(s, u) ==
  /\ user[s] = None
  /\ authFlow[s] = NoFlow
  /\ u \in accounts
  /\ user' = [user EXCEPT ![s] = u]
  /\ authPending' = [authPending EXCEPT ![s] = u]
  /\ UNCHANGED <<dbVars, profile, authFlow, accounts, listVars, uiVars>>

\* useAuth:109-116: the profile read returns
LoadProfile(s) ==
  /\ authPending[s] # None
  /\ authFlow[s].listener = "idle"
  /\ authPending[s] \in DOMAIN dbUsers
  /\ LET p == dbUsers[authPending[s]]
     IN  /\ profile' = [profile EXCEPT ![s] = p]
         /\ view' = [view EXCEPT ![s] = EntryView(p)]
  /\ authPending' = [authPending EXCEPT ![s] = None]
  /\ UNCHANGED <<dbVars, user, authFlow, accounts, listVars, selectedDeliveryId, deliveryForm, inflight, batch, toasts>>

\* useAuth:87-88: getDoc reads the profile document; its result is held by the
\* suspended listener until the continuation runs
ReadProfile(s) ==
  /\ authPending[s] # None
  /\ authFlow[s].listener = "idle"
  /\ authPending[s] \in DOMAIN dbUsers
  /\ authFlow' = [authFlow EXCEPT ![s].listener = "read", ![s].snap = dbUsers[authPending[s]]]
  /\ UNCHANGED <<dbVars, user, profile, authPending, accounts, listVars, uiVars>>

\* useAuth:109-116: the continuation of the read sets the profile and the
\* entry view from the document it was given
DeliverProfile(s) ==
  /\ authFlow[s].listener = "read"
  /\ LET p == authFlow[s].snap
     IN  /\ profile' = [profile EXCEPT ![s] = p]
         /\ view' = [view EXCEPT ![s] = EntryView(p)]
  /\ authPending' = [authPending EXCEPT ![s] = None]
  /\ authFlow' = [authFlow EXCEPT ![s].listener = "idle", ![s].snap = NoProfile]
  /\ UNCHANGED <<dbVars, user, accounts, listVars, selectedDeliveryId, deliveryForm, inflight, batch, toasts>>

\* useAuth:123-136: the live listener on the profile document
ProfileSnapshot(s) ==
  /\ user[s] # None
  /\ user[s] \in DOMAIN dbUsers
  /\ LET p == dbUsers[user[s]]
     IN  /\ profile' = [profile EXCEPT ![s] = p]
         /\ view' = [view EXCEPT ![s] = IF ~p.active \/ p.status # "ACTIVE" THEN "PENDING" ELSE @]
  /\ UNCHANGED <<dbVars, user, authPending, authFlow, accounts, listVars, selectedDeliveryId, deliveryForm, inflight, batch, toasts>>

\* App.tsx:384-395 with useAuth:79-86: sign-out; the lists are left as they are
doLogout(s) ==
  /\ user[s] # None /\ profile[s] # NoProfile
  /\ ~deliveryForm[s].open
  /\ user' = [user EXCEPT ![s] = None]
  /\ profile' = [profile EXCEPT ![s] = NoProfile]
  /\ view' = [view EXCEPT ![s] = "LOGIN"]
  /\ selectedDeliveryId' = [selectedDeliveryId EXCEPT ![s] = 0]
  /\ Push(s, "info", "Sessao encerrada")
  /\ UNCHANGED <<dbVars, authPending, authFlow, accounts, listVars, deliveryForm, inflight, batch>>

\* the profile every first sign-in path writes (useAuth:93-102,
\* auth.ts:104-114 and 133-142)
\* a first profile that is usable at once
DefaultProfileActive(u) == [uid |-> u, role |-> "PRESTADOR", status |-> "ACTIVE", active |-> TRUE, deletedAt |-> 0]

DefaultProfile(u) == [uid |-> u, role |-> "PRESTADOR", status |-> "PENDING", active |-> FALSE, deletedAt |-> 0]

\* setDoc(doc(db, "users", u), p, { merge: true }): the fields written replace
\* the stored ones, the other fields of an existing document are kept
setDocMerge(u, p) ==
  IF u \in DOMAIN dbUsers
  THEN [dbUsers EXCEPT ![u].role = p.role, ![u].status = p.status, ![u].active = p.active]
  ELSE [x \in DOMAIN dbUsers \cup {u} |-> IF x = u THEN p ELSE dbUsers[x]]

\* what the auth steps leave alone
AuthFrame ==
  /\ UNCHANGED <<dbProjects, dbDeliveries, dbNotifications, nextDeliveryId, nextCommentId, dbSafetyDocs, now>>
  /\ UNCHANGED <<listVars, selectedDeliveryId, deliveryForm, inflight, batch>>

\* useAuth:89-92: the profile read returns and the document does not exist
ProfileMissing(s) ==
  /\ authPending[s] # None
  /\ authFlow[s].listener = "idle"
  /\ authPending[s] \notin DOMAIN dbUsers
  /\ authFlow' = [authFlow EXCEPT ![s].listener = "create"]
  /\ UNCHANGED <<dbUsers, user, profile, authPending, accounts, view, toasts>>
  /\ AuthFrame

\* useAuth:93-106: the listener writes the default profile and shows the
\* pending screen; a rejected setDoc ends the callback
CreateDefaultProfile(s) ==
  /\ authFlow[s].listener = "create"
  /\ \/ /\ dbUsers' = setDocMerge(authPending[s], DefaultProfile(authPending[s]))
        /\ profile' = [profile EXCEPT ![s] = DefaultProfile(authPending[s])]
        /\ view' = [view EXCEPT ![s] = "PENDING"]
     \/ UNCHANGED <<dbUsers, profile, view>>
  /\ authPending' = [authPending EXCEPT ![s] = None]
  /\ authFlow' = [authFlow EXCEPT ![s].listener = "idle"]
  /\ UNCHANGED <<user, accounts, toasts>>
  /\ AuthFrame

\* App.tsx:838 and 976: the links between the login and the sign-up screen
SwitchAuthScreen(s, v) ==
  /\ user[s] = None
  /\ view[s] \in {"LOGIN", "SIGNUP"} /\ v \in {"LOGIN", "SIGNUP"} /\ v # view[s]
  /\ view' = [view EXCEPT ![s] = v]
  /\ UNCHANGED <<dbUsers, authVars, toasts>>
  /\ AuthFrame

\* App.tsx:356-368 with auth.ts:102: Criar conta with well-formed inputs; the
\* identity provider registers u and the auth-state listener fires, or the
\* provider rejects (the email is in use already)
doSignup(s, u) ==
  /\ user[s] = None /\ view[s] = "SIGNUP"
  /\ authFlow[s] = NoFlow
  /\ \/ /\ u \notin accounts
        /\ accounts' = accounts \cup {u}
        /\ user' = [user EXCEPT ![s] = u]
        /\ authPending' = [authPending EXCEPT ![s] = u]
        /\ authFlow' = [authFlow EXCEPT ![s].service = "signup", ![s].uid = u]
        /\ UNCHANGED toasts
     \/ /\ Push(s, "error", "Falha ao criar conta")
        /\ UNCHANGED <<accounts, user, authPending, authFlow>>
  /\ UNCHANGED <<dbUsers, profile, view>>
  /\ AuthFrame

\* auth.ts:104-118 with App.tsx:361-364: signupEmail writes the profile
SignupWrite(s) ==
  /\ authFlow[s].service = "signup"
  /\ \/ /\ dbUsers' = setDocMerge(authFlow[s].uid, DefaultProfile(authFlow[s].uid))
        /\ Push(s, "success", "Conta criada")
     \/ /\ UNCHANGED dbUsers
        /\ Push(s, "error", "Falha ao criar conta")
  /\ authFlow' = [authFlow EXCEPT ![s].service = "idle", ![s].uid = None]
  /\ UNCHANGED <<user, profile, authPending, accounts, view>>
  /\ AuthFrame

\* App.tsx:370-382 with auth.ts:127: Entrar com Google; the popup resolves for
\* identity u and the auth-state listener fires, or the popup is rejected
doGoogle(s, u) ==
  /\ user[s] = None /\ view[s] \in {"LOGIN", "SIGNUP"}
  /\ authFlow[s] = NoFlow
  /\ \/ /\ accounts' = accounts \cup {u}
        /\ user' = [user EXCEPT ![s] = u]
        /\ authPending' = [authPending EXCEPT ![s] = u]
        /\ authFlow' = [authFlow EXCEPT ![s].service = "google", ![s].uid = u]
        /\ UNCHANGED toasts
     \/ /\ Push(s, "error", "Falha no Google")
        /\ UNCHANGED <<accounts, user, authPending, authFlow>>
  /\ UNCHANGED <<dbUsers, profile, view>>
  /\ AuthFrame

\* auth.ts:129-132: loginGoogle reads the profile document
GoogleRead(s) ==
  /\ authFlow[s].service = "google"
  /\ authFlow' = [authFlow EXCEPT ![s].service =
                    IF authFlow[s].uid \in DOMAIN dbUsers THEN "googleMerge" ELSE "googleCreate"]
  /\ UNCHANGED <<dbUsers, user, profile, authPending, accounts, view, toasts>>
  /\ AuthFrame

\* auth.ts:132-155 with App.tsx:375-378: loginGoogle writes the default profile
\* if its read found none, else email, name and photoURL (not modelled)
GoogleWrite(s) ==
  /\ authFlow[s].service \in {"googleCreate", "googleMerge"}
  /\ \/ /\ dbUsers' = IF authFlow[s].service = "googleCreate"
                      THEN setDocMerge(authFlow[s].uid, DefaultProfile(authFlow[s].uid))
                      ELSE dbUsers
        /\ Push(s, "success", "Conectado com Google")
     \/ /\ UNCHANGED dbUsers
        /\ Push(s, "error", "Falha no Google")
  /\ authFlow' = [authFlow EXCEPT ![s].service = "idle", ![s].uid = None]
  /\ UNCHANGED <<user, profile, authPending, accounts, view>>
  /\ AuthFrame

\* ----------------------------------------------------------------- projects
\* App.tsx:1158-1159 and 1222-1223: options of the members select
MemberOptions(s) ==
  {u \in DOMAIN usersList[s] :
     usersList[s][u].role = "PRESTADOR" /\ usersList[s][u].active /\ usersList[s][u].status = "ACTIVE"}

\* portal.ts:54-59 with { memberUids }: updateDoc rejects when the document is gone
updateProjectSvc(projectId, members) ==
  /\ projectId \in DOMAIN dbProjects
  /\ dbProjects' = [dbProjects EXCEPT ![projectId].memberUids = members]

\* App.tsx:489-524: Editar on a project card, the members chosen, Salvar
saveProjectEdits(s, p, members) ==
  /\ Clickable(s) /\ view[s] = "PROJETOS" /\ role(s) = "ADMIN"
  /\ p \in DOMAIN projects[s]
  /\ members \in {projects[s][p].memberUids} \cup SUBSET MemberOptions(s)
  /\ \/ updateProjectSvc(p, members) /\ Push(s, "success", "Projeto atualizado")
     \/ UNCHANGED dbProjects /\ Push(s, "error", "Erro ao atualizar projeto")
  /\ UNCHANGED <<dbUsers, dbDeliveries, dbNotifications, nextDeliveryId, nextCommentId, dbSafetyDocs, now>>
  /\ UNCHANGED <<authVars, listVars, view, selectedDeliveryId, deliveryForm, inflight, batch>>

\* portal.ts:61-70: the cascade query; Firestore returns the first
\* documents in id order up to the limit
deleteProjectQuery(projectId) ==
  Smallest({d \in DOMAIN dbDeliveries : dbDeliveries[d].projectId = projectId}, CascadeLimit)

\* App.tsx:526-529 with portal.ts:61-71: Excluir on a project card, confirmed;
\* the batch is filled from the query result
deleteProject(s, p) ==
  /\ Clickable(s) /\ view[s] = "PROJETOS" /\ role(s) = "ADMIN"
  /\ p \in DOMAIN projects[s]
  /\ ~batch[s].active
  /\ \/ /\ batch' = [batch EXCEPT ![s] = [active |-> TRUE, projectId |-> p,
                                           refs |-> deleteProjectQuery(p)]]
        /\ UNCHANGED toasts
     \/ /\ Push(s, "error", "Erro ao excluir projeto")
        /\ UNCHANGED batch
  /\ UNCHANGED <<dbVars, authVars, listVars, view, selectedDeliveryId, deliveryForm, inflight>>

\* a commit that deletes the project and leaves the queried deliveries
deleteProjectCommitProjectOnly(s) ==
  /\ batch[s].active
  /\ dbProjects' = Remove(dbProjects, {batch[s].projectId})
  /\ Push(s, "success", "Projeto excluido")
  /\ batch' = [batch EXCEPT ![s] = NoBatch]
  /\ UNCHANGED <<dbUsers, dbDeliveries, dbNotifications, nextDeliveryId, nextCommentId, dbSafetyDocs, now>>
  /\ UNCHANGED <<authVars, listVars, view, selectedDeliveryId, deliveryForm, inflight>>

\* portal.ts:73 with App.tsx:530-535: the batch commits as a whole, or is rejected
deleteProjectCommit(s) ==
  /\ batch[s].active
  /\ \/ /\ dbProjects' = Remove(dbProjects, {batch[s].projectId})
        /\ dbDeliveries' = Remove(dbDeliveries, batch[s].refs)
        /\ Push(s, "success", "Projeto excluido")
        /\ view' = [view EXCEPT ![s] = "PROJETOS"]
     \/ /\ Push(s, "error", "Erro ao excluir projeto")
        /\ UNCHANGED <<dbProjects, dbDeliveries, view>>
  /\ batch' = [batch EXCEPT ![s] = NoBatch]
  /\ UNCHANGED <<dbUsers, dbNotifications, nextDeliveryId, nextCommentId, dbSafetyDocs, now>>
  /\ UNCHANGED <<authVars, listVars, selectedDeliveryId, deliveryForm, inflight>>

\* --------------------------------------------------------------- deliveries
\* App.tsx:539-550 from the ENTREGAS view (App.tsx:1749)
openCreateDelivery(s) ==
  /\ Clickable(s) /\ view[s] = "ENTREGAS" /\ role(s) = "ADMIN"
  /\ deliveryForm' = [deliveryForm EXCEPT ![s] = [open |-> TRUE, projectId |-> "", providerUid |-> ""]]
  /\ UNCHANGED <<dbVars, authVars, listVars, view, selectedDeliveryId, inflight, batch, toasts>>

\* App.tsx:1246-1259: the project select; choosing a project clears the provider
SelectProject(s, p) ==
  /\ ShellRendered(s) /\ deliveryForm[s].open
  /\ p \in DOMAIN projects[s]
  /\ deliveryForm' = [deliveryForm EXCEPT ![s] = [open |-> TRUE, projectId |-> p, providerUid |-> ""]]
  /\ UNCHANGED <<dbVars, authVars, listVars, view, selectedDeliveryId, inflight, batch, toasts>>

\* App.tsx:552-559
projectMembers(s) ==
  IF deliveryForm[s].projectId = "" THEN {}
  ELSE LET memberUids == IF deliveryForm[s].projectId \in DOMAIN projects[s]
                         THEN projects[s][deliveryForm[s].projectId].memberUids ELSE {}
       IN  {u \in MemberOptions(s) : u \in memberUids}

\* App.tsx:1300-1316: the provider select
SelectProvider(s, u) ==
  /\ ShellRendered(s) /\ deliveryForm[s].open
  /\ deliveryForm[s].projectId # ""
  /\ u \in projectMembers(s)
  /\ deliveryForm' = [deliveryForm EXCEPT ![s].providerUid = u]
  /\ UNCHANGED <<dbVars, authVars, listVars, view, selectedDeliveryId, inflight, batch, toasts>>

\* App.tsx:1334
CloseDeliveryModal(s) ==
  /\ ShellRendered(s) /\ deliveryForm[s].open
  /\ deliveryForm' = [deliveryForm EXCEPT ![s].open = FALSE]
  /\ UNCHANGED <<dbVars, authVars, listVars, view, selectedDeliveryId, inflight, batch, toasts>>

\* portal.ts:77-83: addDoc under a fresh id
createDelivery(payload) ==
  /\ dbDeliveries' = [d \in DOMAIN dbDeliveries \cup {nextDeliveryId} |->
                        IF d = nextDeliveryId
                        THEN [projectId |-> payload.projectId, providerUid |-> payload.providerUid,
                              status |-> payload.status, attachments |-> <<>>, comments |-> <<>>]
                        ELSE dbDeliveries[d]]
  /\ nextDeliveryId' = nextDeliveryId + 1

\* what saveDelivery checks before it writes (App.tsx:562-575), title and
\* deadline being well-formed
DeliveryFormValid(s) ==
  /\ profile[s] # NoProfile /\ profile[s].role = "ADMIN"
  /\ deliveryForm[s].projectId \in DOMAIN projects[s]
  /\ deliveryForm[s].providerUid # ""

\* App.tsx:561-598: Salvar in the delivery modal
saveDelivery(s) ==
  /\ ShellRendered(s) /\ deliveryForm[s].open
  /\ profile[s] # NoProfile /\ profile[s].role = "ADMIN"
  /\ IF ~DeliveryFormValid(s)
     THEN /\ Push(s, "error", IF deliveryForm[s].projectId \notin DOMAIN projects[s]
                              THEN "Selecione um projeto" ELSE "Selecione um prestador")
          /\ UNCHANGED <<dbDeliveries, nextDeliveryId, deliveryForm, view>>
     ELSE \/ /\ nextDeliveryId <= MaxDeliveryId
             /\ createDelivery([projectId |-> deliveryForm[s].projectId,
                                providerUid |-> deliveryForm[s].providerUid,
                                status |-> "PENDENTE"])
             /\ deliveryForm' = [deliveryForm EXCEPT ![s].open = FALSE]
             /\ Push(s, "success", "Entrega criada")
             /\ view' = [view EXCEPT ![s] = "ENTREGAS"]
          \/ /\ Push(s, "error", "Erro ao criar entrega")
             /\ UNCHANGED <<dbDeliveries, nextDeliveryId, deliveryForm, view>>
  /\ UNCHANGED <<dbUsers, dbProjects, dbNotifications, nextCommentId, dbSafetyDocs, now>>
  /\ UNCHANGED <<authVars, listVars, selectedDeliveryId, inflight, batch>>

\* App.tsx:600-610 with portal.ts:89-91: Excluir entrega on the detail view
removeDelivery(s) ==
  /\ Clickable(s) /\ view[s] = "DETALHE_ENTREGA" /\ HasSelectedDelivery(s) /\ role(s) = "ADMIN"
  /\ \/ /\ dbDeliveries' = Remove(dbDeliveries, {selectedDeliveryId[s]})
        /\ Push(s, "success", "Entrega excluida")
        /\ selectedDeliveryId' = [selectedDeliveryId EXCEPT ![s] = 0]
        /\ view' = [view EXCEPT ![s] = "ENTREGAS"]
     \/ /\ Push(s, "error", "Erro ao excluir entrega")
        /\ UNCHANGED <<dbDeliveries, selectedDeliveryId, view>>
  /\ UNCHANGED <<dbUsers, dbProjects, dbNotifications, nextDeliveryId, nextCommentId, dbSafetyDocs, now>>
  /\ UNCHANGED <<authVars, listVars, deliveryForm, inflight, batch>>

\* ------------------------------------------------------ input validation
\* a string is a sequence of one-character strings
IsSpace(c) == c = " "

IsDigit(c) == c \in {"0", "1", "2", "3", "4", "5", "6", "7", "8", "9"}

\* String.prototype.trim
trim(str) ==
  LET ix == {i \in 1..Len(str) : ~IsSpace(str[i])}
  IN  IF ix = {} THEN <<>>
      ELSE SubSeq(str, CHOOSE i \in ix : \A j \in ix : i <= j,
                       CHOOSE i \in ix : \A j \in ix : j <= i)

\* replace(/\s+/g, " ")
RECURSIVE collapse(_)
collapse(str) ==
  IF Len(str) < 2 THEN str
  ELSE IF IsSpace(str[1]) /\ IsSpace(str[2]) THEN collapse(Tail(str))
  ELSE <<str[1]>> \o collapse(Tail(str))

\* App.tsx:47-49
sanitize(str) == collapse(trim(str))

\* String.prototype.toLowerCase on the alphabet in use
toLowerCase(str) == [i \in 1..Len(str) |-> IF str[i] = "A" THEN "a" ELSE str[i]]

\* a date check that looks at the length only
isValidDateLength(date) == Len(date) = 10

\* App.tsx:51-53: /^\d{4}-\d{2}-\d{2}$/
isValidDateISO(date) ==
  /\ Len(date) = 10
  /\ \A i \in 1..10 : IF i \in {5, 8} THEN date[i] = "-" ELSE IsDigit(date[i])

\* auth.ts:12-14: /^[^\s@]+@[^\s@]+\.[^\s@]+$/ on the trimmed string: no
\* white space, one @ after a first character, and a dot after it that is
\* neither next to the @ nor the last character
isValidEmail(email) ==
  LET e == trim(email)
  IN  \E i, j \in 1..Len(e) :
        /\ e[i] = "@" /\ e[j] = "."
        /\ 1 < i /\ i + 1 < j /\ j < Len(e)
        /\ \A k \in 1..Len(e) : ~IsSpace(e[k]) /\ (e[k] = "@" => k = i)

\* auth.ts:52-64: what loginEmail checks before it calls the identity provider
loginInputOk(email, password) ==
  /\ toLowerCase(trim(email)) # <<>>
  /\ isValidEmail(toLowerCase(trim(email)))
  /\ Len(password) >= MinPasswordLen

\* auth.ts:83-100: what signupEmail checks before it calls the identity provider
signupInputOk(name, email, password) ==
  /\ trim(name) # <<>>
  /\ Len(trim(name)) >= MinNameLen
  /\ isValidEmail(toLowerCase(trim(email)))
  /\ Len(password) >= MinPasswordLen

\* what a handler that returns before its first call leaves alone
NoCall == UNCHANGED <<dbVars, authVars, listVars, view, selectedDeliveryId, deliveryForm, inflight, batch>>

\* App.tsx:342-354 with auth.ts:50-72: Entrar with the typed email and
\* password; u is the identity the credentials belong to, if any
doLogin(s, email, password, u) ==
  /\ user[s] = None /\ view[s] = "LOGIN"
  /\ authFlow[s] = NoFlow
  /\ IF ~loginInputOk(email, password)
     THEN Push(s, "error", "Falha no login") /\ NoCall
     ELSE /\ \/ /\ u \in accounts
                /\ user' = [user EXCEPT ![s] = u]
                /\ authPending' = [authPending EXCEPT ![s] = u]
                /\ Push(s, "success", "Login realizado")
             \/ /\ Push(s, "error", "Falha no login")
                /\ UNCHANGED <<user, authPending>>
          /\ UNCHANGED <<dbVars, profile, authFlow, accounts, listVars>>
          /\ UNCHANGED <<view, selectedDeliveryId, deliveryForm, inflight, batch>>

\* App.tsx:356-368 with auth.ts:74-102: Criar conta with the typed name, email
\* and password
doSignupForm(s, name, email, password, u) ==
  /\ user[s] = None /\ view[s] = "SIGNUP"
  /\ authFlow[s] = NoFlow
  /\ IF ~signupInputOk(name, email, password)
     THEN Push(s, "error", "Falha ao criar conta") /\ NoCall
     ELSE doSignup(s, u)

\* portal.ts:50-52: addDoc under a fresh id (the scenarios that create
\* projects delete none)
createProject(payload) ==
  \E p \in ProjectIds \ DOMAIN dbProjects :
    dbProjects' = [x \in DOMAIN dbProjects \cup {p} |-> IF x = p THEN payload ELSE dbProjects[x]]

\* App.tsx:457-487: Salvar in the new-project modal, no member chosen
saveProject(s, client, name) ==
  IF profile[s] = NoProfile \/ profile[s].role # "ADMIN" THEN UNCHANGED vars
  ELSE /\ ShellRendered(s)
       /\ IF sanitize(client) = <<>> \/ sanitize(name) = <<>>
          THEN Push(s, "error", "Preencha cliente e nome do projeto") /\ NoCall
          ELSE /\ \/ /\ createProject([memberUids |-> {}])
                     /\ Push(s, "success", "Projeto criado")
                     /\ view' = [view EXCEPT ![s] = "PROJETOS"]
                  \/ /\ Push(s, "error", "Erro ao criar projeto")
                     /\ UNCHANGED <<dbProjects, view>>
               /\ UNCHANGED <<dbUsers, dbDeliveries, dbNotifications, nextDeliveryId, nextCommentId, dbSafetyDocs, now>>
               /\ UNCHANGED <<authVars, listVars, selectedDeliveryId, deliveryForm, inflight, batch>>

\* App.tsx:500-524: Salvar in the edit-project modal with the typed client
\* and name
saveProjectEditsForm(s, p, members, client, name) ==
  IF profile[s] = NoProfile \/ profile[s].role # "ADMIN" THEN UNCHANGED vars
  ELSE IF sanitize(client) = <<>> \/ sanitize(name) = <<>>
  THEN /\ Clickable(s) /\ view[s] = "PROJETOS" /\ p \in DOMAIN projects[s]
       /\ Push(s, "error", "Preencha cliente e nome do projeto") /\ NoCall
  ELSE saveProjectEdits(s, p, members)

\* App.tsx:561-598: Salvar in the delivery modal with the typed title and
\* deadline
saveDeliveryForm(s, title, deadline) ==
  IF profile[s] = NoProfile \/ profile[s].role # "ADMIN" THEN UNCHANGED vars
  ELSE IF deliveryForm[s].projectId \notin DOMAIN projects[s] THEN saveDelivery(s)
  ELSE IF sanitize(title) = <<>>
  THEN /\ ShellRendered(s) /\ deliveryForm[s].open
       /\ Push(s, "error", "Informe o titulo da entrega") /\ NoCall
  ELSE IF deadline = <<>> \/ ~isValidDateISO(deadline)
  THEN /\ ShellRendered(s) /\ deliveryForm[s].open
       /\ Push(s, "error", "Informe um prazo valido") /\ NoCall
  ELSE saveDelivery(s)

\* portal.ts:94-99
addProviderSafetyDoc(providerUid, docPayload) ==
  /\ Len(dbSafetyDocs) < MaxSafetyDocs
  /\ dbSafetyDocs' = Append(dbSafetyDocs, [providerUid |-> providerUid, title |-> docPayload.title])

\* App.tsx:734-761: Salvar registro on the page of provider prov (None: no
\* provider selected)
saveSafetyDoc(s, prov, title, issuedAt, expiresAt) ==
  IF profile[s] = NoProfile \/ prov = None THEN UNCHANGED vars
  ELSE /\ Clickable(s)
       /\ IF sanitize(title) = <<>>
          THEN Push(s, "error", "Informe o titulo do registro") /\ NoCall
          ELSE IF issuedAt = <<>> \/ ~isValidDateISO(issuedAt)
          THEN Push(s, "error", "Informe a data de emissao valida") /\ NoCall
          ELSE IF expiresAt # <<>> /\ ~isValidDateISO(expiresAt)
          THEN Push(s, "error", "Data de validade invalida") /\ NoCall
          ELSE /\ \/ /\ addProviderSafetyDoc(prov, [title |-> sanitize(title)])
                     /\ Push(s, "success", "Registro adicionado")
                  \/ /\ Push(s, "error", "Erro ao salvar registro")
                     /\ UNCHANGED dbSafetyDocs
               /\ UNCHANGED <<dbUsers, dbProjects, dbDeliveries, dbNotifications, nextDeliveryId, nextCommentId, now>>
               /\ UNCHANGED <<authVars, listVars, view, selectedDeliveryId, deliveryForm, inflight, batch>>

\* ------------------------------------------------------------ initial states
Profile(u, r, st) == [uid |-> u, role |-> r, status |-> st, active |-> (st = "ACTIVE"), deletedAt |-> 0]

Project(members) == [memberUids |-> members]

Delivery(p, u, st) ==
  [projectId |-> p, providerUid |-> u, status |-> st, attachments |-> <<>>, comments |-> <<>>]

\* every session is signed in and has its profile, no snapshot has arrived yet
SignedIn(who) ==
  /\ user = who
  /\ profile = [s \in Sessions |-> dbUsers[who[s]]]
  /\ authPending = [s \in Sessions |-> None]
  /\ authFlow = [s \in Sessions |-> NoFlow]
  /\ accounts = DOMAIN dbUsers
  /\ view = [s \in Sessions |-> EntryView(dbUsers[who[s]])]
  /\ usersList = [s \in Sessions |-> Empty]
  /\ projects = [s \in Sessions |-> Empty]
  /\ deliveries = [s \in Sessions |-> Empty]
  /\ notifications = [s \in Sessions |-> Empty]
  /\ selectedDeliveryId = [s \in Sessions |-> 0]
  /\ deliveryForm = [s \in Sessions |-> NoForm]
  /\ inflight = [s \in Sessions |-> NoWrites]
  /\ batch = [s \in Sessions |-> NoBatch]
  /\ toasts = [s \in Sessions |-> <<>>]

\* admin A1 in session s1, contractor U1 in session s2; A2 waits for approval;
\* project P1 has one delivery, assigned to U1
InitUsers ==
  [u \in Uids |-> IF u = "A1" THEN Profile(u, "ADMIN", "ACTIVE")
                  ELSE IF u = "A2" THEN Profile(u, "PRESTADOR", "PENDING")
                  ELSE Profile(u, "PRESTADOR", "ACTIVE")]

InitStore ==
  /\ dbUsers = InitUsers
  /\ dbProjects = [p \in {"P1"} |-> Project({"U1"})]
  /\ dbDeliveries = [d \in {1} |-> Delivery("P1", "U1", "PENDENTE")]
  /\ dbNotifications = <<>>
  /\ nextDeliveryId = 2
  /\ nextCommentId = 1
  /\ dbSafetyDocs = <<>>
  /\ now = 1

AdminAndContractor == [s \in Sessions |-> IF s = "s1" THEN "A1" ELSE "U1"]

Init == InitStore /\ SignedIn(AdminAndContractor)

\* the delivery workflow: status changes and the notifications they send; only
\* a contractor's handlers read usersList, so only that session's list is followed
Next ==
  \E s \in Sessions :
    \/ (role(s) = "PRESTADOR" /\ SnapshotUsers(s))
    \/ SnapshotDeliveries(s)
    \/ onNav(s, "ENTREGAS")
    \/ \E d \in DOMAIN deliveries[s] : OpenDelivery(s, d)
    \/ \E n \in Status : ClickStatus(s, n)
    \/ NotifySettle(s)
    \/ ToastClose(s)

Spec == Init /\ [][Next]_vars

\* notifications: the admin receives them and marks them read
NextNotif ==
  \E s \in Sessions :
    \/ SnapshotUsers(s)
    \/ SnapshotDeliveries(s)
    \/ SnapshotNotifications(s)
    \/ \E v \in {"DASHBOARD", "ENTREGAS"} : onNav(s, v)
    \/ \E d \in DOMAIN deliveries[s] : OpenDelivery(s, d)
    \/ ClickStatus(s, "REVISAO")
    \/ NotifySettle(s)
    \/ ClickMarkAllRead(s)
    \/ ToastClose(s)

SpecNotif == Init /\ [][NextNotif]_vars

\* ---- scope: two projects with one contractor and one delivery each; the
\* sessions sign out and other identities sign in
InitScope ==
  /\ dbUsers = [u \in Uids |-> Profile(u, IF u \in {"A1", "A2"} THEN "ADMIN" ELSE "PRESTADOR", "ACTIVE")]
  /\ dbProjects = [p \in ProjectIds |-> Project(IF p = "P1" THEN {"U1"} ELSE {"U2"})]
  /\ dbDeliveries = [d \in {1, 2} |-> Delivery(IF d = 1 THEN "P1" ELSE "P2",
                                               IF d = 1 THEN "U1" ELSE "U2", "PENDENTE")]
  /\ dbNotifications = <<>>
  /\ nextDeliveryId = 3
  /\ nextCommentId = 1
  /\ dbSafetyDocs = <<>>
  /\ now = 1
  /\ SignedIn(AdminAndContractor)

NextScope ==
  \E s \in Sessions :
    \/ SnapshotProjects(s)
    \/ SnapshotDeliveries(s)
    \/ doLogout(s)
    \/ \E u \in {"A1", "U1", "U2"} : SignIn(s, u)
    \/ LoadProfile(s)
    \/ ProfileSnapshot(s)
    \/ ToastClose(s)

SpecScope == InitScope /\ [][NextScope]_vars

\* ---- fan-out: the admin approves and removes the waiting user A2 while the
\* contractor submits and comments (the admin's deliveries list is not followed)
NextFanout ==
  \E s \in Sessions :
    \/ SnapshotUsers(s)
    \/ (role(s) = "PRESTADOR" /\ SnapshotDeliveries(s))
    \/ \E v \in {"ENTREGAS", "USUARIOS"} : onNav(s, v)
    \/ \E d \in DOMAIN deliveries[s] : OpenDelivery(s, d)
    \/ ClickApprove(s, "A2", "ADMIN")
    \/ ClickRemove(s, "A2")
    \/ ClickStatus(s, "REVISAO")
    \/ ClickPublish(s)
    \/ NotifySettle(s)
    \/ ToastClose(s)

SpecFanout == Init /\ [][NextFanout]_vars

\* ---- cascade: project P1 has n deliveries, an admin deletes it
InitCascade ==
  /\ dbUsers = InitUsers
  /\ dbProjects = [p \in ProjectIds |-> Project({"U1"})]
  /\ \E n \in 0..MaxProjDeliveries :
       /\ dbDeliveries = [d \in 1..n |-> Delivery("P1", "U1", "PENDENTE")]
       /\ nextDeliveryId = n + 1
  /\ dbNotifications = <<>>
  /\ nextCommentId = 1
  /\ dbSafetyDocs = <<>>
  /\ now = 1
  /\ SignedIn(AdminAndContractor)

NextCascade ==
  \E s \in Sessions :
    \/ SnapshotProjects(s)
    \/ onNav(s, "PROJETOS")
    \/ \E p \in ProjectIds : deleteProject(s, p)
    \/ deleteProjectCommit(s)
    \/ ToastClose(s)

SpecCascade == InitCascade /\ [][NextCascade]_vars

\* ---- user management: two admins approve, reject and remove users
TwoAdmins == [s \in Sessions |-> IF s = "s1" THEN "A1" ELSE "A2"]

InitTwoAdmins ==
  /\ dbUsers = [u \in Uids |-> IF u \in {"A1", "A2"} THEN Profile(u, "ADMIN", "ACTIVE")
                               ELSE IF u = "U1" THEN Profile(u, "PRESTADOR", "ACTIVE")
                               ELSE Profile(u, "PRESTADOR", "PENDING")]
  /\ dbProjects = [p \in {"P1"} |-> Project({"U1"})]
  /\ dbDeliveries = [d \in {1} |-> Delivery("P1", "U1", "PENDENTE")]
  /\ dbNotifications = <<>>
  /\ nextDeliveryId = 2
  /\ nextCommentId = 1
  /\ dbSafetyDocs = <<>>
  /\ now = 1
  /\ SignedIn(TwoAdmins)

NextUsers ==
  \/ Tick
  \/ \E s \in Sessions :
       \/ SnapshotUsers(s)
       \/ onNav(s, "USUARIOS")
       \/ \E u \in {"U1", "U2"} :
            \/ ClickApprove(s, u, "PRESTADOR")
            \/ ClickReject(s, u)
            \/ ClickRemove(s, u)
       \/ ToastClose(s)

SpecUsers == InitTwoAdmins /\ [][NextUsers]_vars

\* ---- delivery form: the admin of session s1 fills the form while the admin
\* of session s2 edits the members of the project
InitForm ==
  /\ dbUsers = [u \in Uids |-> Profile(u, IF u \in {"A1", "A2"} THEN "ADMIN" ELSE "PRESTADOR", "ACTIVE")]
  /\ dbProjects = [p \in {"P1"} |-> Project({"U1"})]
  /\ dbDeliveries = [d \in {1} |-> Delivery("P1", "U1", "PENDENTE")]
  /\ dbNotifications = <<>>
  /\ nextDeliveryId = 2
  /\ nextCommentId = 1
  /\ dbSafetyDocs = <<>>
  /\ now = 1
  /\ SignedIn(TwoAdmins)

NextForm ==
  \/ \E s \in Sessions :
       \/ SnapshotUsers(s)
       \/ SnapshotProjects(s)
       \/ ToastClose(s)
  \/ onNav("s1", "ENTREGAS")
  \/ openCreateDelivery("s1")
  \/ \E p \in ProjectIds : SelectProject("s1", p)
  \/ \E u \in Uids : SelectProvider("s1", u)
  \/ CloseDeliveryModal("s1")
  \/ saveDelivery("s1")
  \/ onNav("s2", "PROJETOS")
  \/ \E p \in ProjectIds, m \in {{"U1"}, {"U2"}} : saveProjectEdits("s2", p, m)

SpecForm == InitForm /\ [][NextForm]_vars

\* ---- accounts: admin A1 works in session s1; in session s2 the new
\* identity U1 signs up or signs in, is approved, rejected or removed
InitAuth ==
  /\ dbUsers = [u \in {"A1"} |-> Profile(u, "ADMIN", "ACTIVE")]
  /\ dbProjects = [p \in {"P1"} |-> Project({})]
  /\ dbDeliveries = Empty
  /\ dbNotifications = <<>>
  /\ nextDeliveryId = 1
  /\ nextCommentId = 1
  /\ dbSafetyDocs = <<>>
  /\ now = 1
  /\ user = [s \in Sessions |-> IF s = "s1" THEN "A1" ELSE None]
  /\ profile = [s \in Sessions |-> IF s = "s1" THEN dbUsers["A1"] ELSE NoProfile]
  /\ authPending = [s \in Sessions |-> None]
  /\ authFlow = [s \in Sessions |-> NoFlow]
  /\ accounts = {"A1"}
  /\ view = [s \in Sessions |-> IF s = "s1" THEN "DASHBOARD" ELSE "LOGIN"]
  /\ usersList = [s \in Sessions |-> Empty]
  /\ projects = [s \in Sessions |-> Empty]
  /\ deliveries = [s \in Sessions |-> Empty]
  /\ notifications = [s \in Sessions |-> Empty]
  /\ selectedDeliveryId = [s \in Sessions |-> 0]
  /\ deliveryForm = [s \in Sessions |-> NoForm]
  /\ inflight = [s \in Sessions |-> NoWrites]
  /\ batch = [s \in Sessions |-> NoBatch]
  /\ toasts = [s \in Sessions |-> <<>>]

NextAuth ==
  \E s \in Sessions :
    \/ (role(s) = "ADMIN" /\ SnapshotUsers(s))
    \/ onNav(s, "USUARIOS")
    \/ ClickApprove(s, "U1", "PRESTADOR")
    \/ ClickReject(s, "U1")
    \/ ClickRemove(s, "U1")
    \/ \E v \in {"LOGIN", "SIGNUP"} : SwitchAuthScreen(s, v)
    \/ doSignup(s, "U1")
    \/ SignupWrite(s)
    \/ doGoogle(s, "U1")
    \/ GoogleRead(s)
    \/ GoogleWrite(s)
    \/ SignIn(s, "U1")
    \/ ProfileMissing(s)
    \/ CreateDefaultProfile(s)
    \/ LoadProfile(s)
    \/ (role(s) # "ADMIN" /\ doLogout(s))
    \/ ToastClose(s)

SpecAuth == InitAuth /\ [][NextAuth]_vars

\* ---- gate: U1 waits for approval in session s2; admin A1 approves,
\* rejects and removes U1, who signs out and in again
InitGate ==
  /\ dbUsers = [u \in {"A1", "U1"} |-> IF u = "A1" THEN Profile(u, "ADMIN", "ACTIVE")
                                       ELSE Profile(u, "PRESTADOR", "PENDING")]
  /\ dbProjects = [p \in {"P1"} |-> Project({"U1"})]
  /\ dbDeliveries = [d \in {1} |-> Delivery("P1", "U1", "PENDENTE")]
  /\ dbNotifications = <<>>
  /\ nextDeliveryId = 2
  /\ nextCommentId = 1
  /\ dbSafetyDocs = <<>>
  /\ now = 1
  /\ SignedIn(AdminAndContractor)

NextGate ==
  \E s \in Sessions :
    \/ (role(s) = "ADMIN" /\ SnapshotUsers(s))
    \/ (role(s) = "PRESTADOR" /\ SnapshotDeliveries(s))
    \/ onNav(s, IF role(s) = "ADMIN" THEN "USUARIOS" ELSE "ENTREGAS")
    \/ ClickApprove(s, "U1", "PRESTADOR")
    \/ ClickReject(s, "U1")
    \/ ClickRemove(s, "U1")
    \/ ProfileSnapshot(s)
    \/ (user[s] # "A1" /\ doLogout(s))
    \/ SignIn(s, "U1")
    \/ LoadProfile(s)
    \/ ToastClose(s)

SpecGate == InitGate /\ [][NextGate]_vars

\* the gate scenario in which every delivery the Firebase client has scheduled
\* (the profile read of the auth listener, the live profile snapshot) is
\* eventually made; what the people at the screens do is not forced
SpecGateLive ==
  /\ SpecGate
  /\ \A s \in Sessions : WF_vars(ProfileSnapshot(s)) /\ WF_vars(LoadProfile(s))

\* ---- lock-out: A1 is the only admin; in the USUARIOS view A1 approves,
\* rejects and removes the listed users, A1's own row of the active card
\* included
NextLockout ==
  \/ SnapshotUsers("s1")
  \/ onNav("s1", "USUARIOS")
  \/ \E r \in {"ADMIN", "PRESTADOR"} : ClickApprove("s1", "U1", r)
  \/ ClickReject("s1", "U1")
  \/ \E u \in {"A1", "U1"} : ClickRemove("s1", u)
  \/ \E s \in Sessions : ProfileSnapshot(s) \/ ToastClose(s)

SpecLockout == InitGate /\ [][NextLockout]_vars

\* ---- entry: nobody is signed in; identities of every role and status sign
\* in and out
SignedOut ==
  /\ user = [s \in Sessions |-> None]
  /\ profile = [s \in Sessions |-> NoProfile]
  /\ authPending = [s \in Sessions |-> None]
  /\ authFlow = [s \in Sessions |-> NoFlow]
  /\ accounts = DOMAIN dbUsers
  /\ view = [s \in Sessions |-> "LOGIN"]
  /\ usersList = [s \in Sessions |-> Empty]
  /\ projects = [s \in Sessions |-> Empty]
  /\ deliveries = [s \in Sessions |-> Empty]
  /\ notifications = [s \in Sessions |-> Empty]
  /\ selectedDeliveryId = [s \in Sessions |-> 0]
  /\ deliveryForm = [s \in Sessions |-> NoForm]
  /\ inflight = [s \in Sessions |-> NoWrites]
  /\ batch = [s \in Sessions |-> NoBatch]
  /\ toasts = [s \in Sessions |-> <<>>]

InitEntry ==
  /\ dbUsers = [u \in Uids |-> IF u = "A1" THEN Profile(u, "ADMIN", "ACTIVE")
                               ELSE IF u = "A2" THEN Profile(u, "ADMIN", "DELETED")
                               ELSE IF u = "U1" THEN Profile(u, "PRESTADOR", "ACTIVE")
                               ELSE Profile(u, "PRESTADOR", "PENDING")]
  /\ dbProjects = [p \in {"P1"} |-> Project({"U1"})]
  /\ dbDeliveries = [d \in {1} |-> Delivery("P1", "U1", "PENDENTE")]
  /\ dbNotifications = <<>>
  /\ nextDeliveryId = 2
  /\ nextCommentId = 1
  /\ dbSafetyDocs = <<>>
  /\ now = 1
  /\ SignedOut

NextEntry ==
  \E s \in Sessions :
    \/ \E u \in Uids : SignIn(s, u)
    \/ LoadProfile(s)
    \/ \E v \in {"LOGIN", "SIGNUP"} : SwitchAuthScreen(s, v)
    \/ doLogout(s)
    \/ ToastClose(s)

SpecEntry == InitEntry /\ [][NextEntry]_vars

\* ---- freshness: U1 and U2 sign in at s2 while admin A1, at s1, approves,
\* rejects and removes them; the one-shot read of the auth listener and its
\* continuation are separate steps, so the live snapshot can come between
NextFresh ==
  \/ SignIn("s1", "A1")
  \/ \E u \in {"U1", "U2"} : SignIn("s2", u)
  \/ \E s \in Sessions : ReadProfile(s) \/ DeliverProfile(s) \/ ProfileSnapshot(s)
  \/ SnapshotUsers("s1")
  \/ onNav("s1", "USUARIOS")
  \/ ClickApprove("s1", "U2", "PRESTADOR")
  \/ ClickReject("s1", "U2")
  \/ \E u \in {"U1", "U2"} : ClickRemove("s1", u)
  \/ \E s \in Sessions : ToastClose(s)

SpecFresh == InitEntry /\ [][NextFresh]_vars

\* ---- account switch: in one mounted App an admin and a contractor sign in
\* one after the other while the users listener delivers snapshots
NextSwitch ==
  \E s \in Sessions :
    \/ \E u \in {"A1", "U1"} : SignIn(s, u)
    \/ LoadProfile(s)
    \/ SnapshotUsers(s)
    \/ doLogout(s)
    \/ ToastClose(s)

SpecSwitch == InitEntry /\ [][NextSwitch]_vars

\* ---- orphans: admin A1 in session s1 deletes project P1 while admin A2 in
\* session s2 creates a delivery for it
NextOrphan ==
  \/ \E s \in Sessions :
       \/ SnapshotProjects(s)
       \/ ToastClose(s)
  \/ onNav("s1", "PROJETOS")
  \/ deleteProject("s1", "P1")
  \/ deleteProjectCommit("s1")
  \/ SnapshotUsers("s2")
  \/ onNav("s2", "ENTREGAS")
  \/ openCreateDelivery("s2")
  \/ SelectProject("s2", "P1")
  \/ SelectProvider("s2", "U1")
  \/ saveDelivery("s2")

SpecOrphan == InitForm /\ [][NextOrphan]_vars

\* ---- life cycle: the admin, with its lists loaded, creates deliveries and
\* settles them; the contractor has delivery 1 open as it was first listed
\* and sends it to review (the contractor has no users snapshot, so only the
\* contractor is notified)
InitLifecycle ==
  /\ dbUsers = InitUsers
  /\ dbProjects = [p \in {"P1"} |-> Project({"U1"})]
  /\ dbDeliveries = [d \in 1..(MaxDeliveryId - 1) |-> Delivery("P1", "U1", "PENDENTE")]
  /\ dbNotifications = <<>>
  /\ nextDeliveryId = MaxDeliveryId
  /\ nextCommentId = 1
  /\ dbSafetyDocs = <<>>
  /\ now = 1
  /\ user = AdminAndContractor
  /\ profile = [s \in Sessions |-> dbUsers[user[s]]]
  /\ authPending = [s \in Sessions |-> None]
  /\ authFlow = [s \in Sessions |-> NoFlow]
  /\ accounts = DOMAIN dbUsers
  /\ view = [s \in Sessions |-> IF s = "s1" THEN "ENTREGAS" ELSE "DETALHE_ENTREGA"]
  /\ usersList = [s \in Sessions |-> IF s = "s1" THEN dbUsers ELSE Empty]
  /\ projects = [s \in Sessions |-> dbProjects]
  /\ deliveries = [s \in Sessions |-> dbDeliveries]
  /\ notifications = [s \in Sessions |-> Empty]
  /\ selectedDeliveryId = [s \in Sessions |-> IF s = "s1" THEN 0 ELSE 1]
  /\ deliveryForm = [s \in Sessions |-> NoForm]
  /\ inflight = [s \in Sessions |-> NoWrites]
  /\ batch = [s \in Sessions |-> NoBatch]
  /\ toasts = [s \in Sessions |-> <<>>]

NextLifecycle ==
  \/ \E s \in Sessions :
       \/ \E n \in Status : ClickStatus(s, n)
       \/ ToastClose(s)
  \/ SnapshotDeliveries("s1")
  \/ onNav("s1", "ENTREGAS")
  \/ OpenDelivery("s1", 1)
  \/ NotifySettle("s1")
  \/ openCreateDelivery("s1")
  \/ SelectProject("s1", "P1")
  \/ SelectProvider("s1", "U1")
  \/ saveDelivery("s1")

SpecLifecycle == InitLifecycle /\ [][NextLifecycle]_vars

\* ---- comments: the admin and the contractor open the same delivery and
\* publish comments (no users snapshot has arrived, so nobody is notified)
NextComments ==
  \E s \in Sessions :
    \/ SnapshotDeliveries(s)
    \/ onNav(s, "ENTREGAS")
    \/ \E d \in DOMAIN deliveries[s] : OpenDelivery(s, d)
    \/ ClickPublish(s)
    \/ ToastClose(s)

SpecComments == Init /\ [][NextComments]_vars

\* ---- forms: session s1 starts as admin A1 with its lists loaded; the forms
\* of projects, deliveries and safety records are submitted with typed texts
\* and dates, and after a sign-out a user signs in or signs up with typed
\* credentials
BlankTexts == { <<>>, <<" ", " ">> }

Texts == { <<" ", "a", " ", " ", "b">> }

WellFormedDates == { <<"2", "0", "2", "6", "-", "0", "1", "-", "3", "1">> }

MalformedDates ==
  { <<>>,
    <<"3", "1", "/", "0", "1", "/", "2", "0", "2", "6">>,
    <<"2", "0", "2", "6", "-", "0", "1", "-", "3", "1", "1">> }

WellFormedEmails == { <<" ", "A", "@", "b", ".", "c", " ">> }

MalformedEmails ==
  { <<" ">>,
    <<"a", "@", "b">>,
    <<"a", "@", "@", "b", ".", "c">>,
    <<"a", " ", "@", "b", ".", "c">>,
    <<"a", "@", ".", "c">> }

ShortPasswords == { <<>>, <<"a", "b", "c", "1", "2">> }

LongPasswords == { <<"a", "b", "c", "1", "2", "3">> }

InitValid ==
  /\ dbUsers = [u \in {"A1", "U1"} |-> IF u = "A1" THEN Profile(u, "ADMIN", "ACTIVE")
                                       ELSE Profile(u, "PRESTADOR", "ACTIVE")]
  /\ dbProjects = [p \in {"P1"} |-> Project({"U1"})]
  /\ dbDeliveries = [d \in 1..(MaxDeliveryId - 1) |-> Delivery("P1", "U1", "PENDENTE")]
  /\ dbNotifications = <<>>
  /\ nextDeliveryId = MaxDeliveryId
  /\ nextCommentId = 1
  /\ dbSafetyDocs = <<>>
  /\ now = 1
  /\ user = [s \in Sessions |-> IF s = "s1" THEN "A1" ELSE None]
  /\ profile = [s \in Sessions |-> IF s = "s1" THEN dbUsers["A1"] ELSE NoProfile]
  /\ authPending = [s \in Sessions |-> None]
  /\ authFlow = [s \in Sessions |-> NoFlow]
  /\ accounts = DOMAIN dbUsers
  /\ view = [s \in Sessions |-> IF s = "s1" THEN "ENTREGAS" ELSE "LOGIN"]
  /\ usersList = [s \in Sessions |-> IF s = "s1" THEN dbUsers ELSE Empty]
  /\ projects = [s \in Sessions |-> IF s = "s1" THEN dbProjects ELSE Empty]
  /\ deliveries = [s \in Sessions |-> IF s = "s1" THEN dbDeliveries ELSE Empty]
  /\ notifications = [s \in Sessions |-> Empty]
  /\ selectedDeliveryId = [s \in Sessions |-> 0]
  /\ deliveryForm = [s \in Sessions |-> NoForm]
  /\ inflight = [s \in Sessions |-> NoWrites]
  /\ batch = [s \in Sessions |-> NoBatch]
  /\ toasts = [s \in Sessions |-> <<>>]

NextValid ==
  \/ \E e \in WellFormedEmails \cup MalformedEmails, pw \in ShortPasswords \cup LongPasswords :
       \/ \E u \in {"A1", "U1"} : doLogin("s1", e, pw, u)
       \/ \E n \in BlankTexts \cup Texts \cup {<<"a", "b">>} : doSignupForm("s1", n, e, pw, "U2")
  \/ \E v \in {"LOGIN", "SIGNUP"} : SwitchAuthScreen("s1", v)
  \/ SignupWrite("s1")
  \/ ProfileMissing("s1")
  \/ CreateDefaultProfile("s1")
  \/ LoadProfile("s1")
  \/ doLogout("s1")
  \/ \E v \in {"PROJETOS", "ENTREGAS"} : onNav("s1", v)
  \/ openCreateDelivery("s1")
  \/ SelectProject("s1", "P1")
  \/ SelectProvider("s1", "U1")
  \/ \E c, n \in BlankTexts \cup Texts :
       \/ saveProject("s1", c, n)
       \/ saveProjectEditsForm("s1", "P1", {"U1"}, c, n)
  \/ \E title \in {<<" ", " ">>} \cup Texts, d \in WellFormedDates \cup MalformedDates :
       \/ saveDeliveryForm("s1", title, d)
       \/ \E x \in {<<>>, <<"3", "1", "/", "0", "1", "/", "2", "0", "2", "6">>} :
            saveSafetyDoc("s1", "U1", title, d, x)
  \/ \E title \in Texts, d \in WellFormedDates : saveSafetyDoc("s1", None, title, d, <<>>)
  \/ ToastClose("s1")

SpecValid == InitValid /\ [][NextValid]_vars

\* =========================================================================
\* Properties
\* =========================================================================
\* the transition table of the delivery state machine: <<role, from, to>>
TransitionTable ==
  { <<"PRESTADOR", "PENDENTE", "REVISAO">>, <<"PRESTADOR", "AJUSTES", "REVISAO">>,
    <<"ADMIN", "REVISAO", "APROVADO">>, <<"ADMIN", "REVISAO", "AJUSTES">> }

\* the notification documents a step adds to the store
Created == {dbNotifications'[i] : i \in (Len(dbNotifications) + 1)..Len(dbNotifications')}

ErrorToastPushed(s) ==
  /\ toasts'[s] # toasts[s]
  /\ toasts'[s] # <<>>
  /\ Head(toasts'[s]).type = "error"

\* C1: a setDeliveryStatus attempt whose (stored status, caller role,
\* requested status) is not in the transition table fails and leaves the
\* stored status unchanged.
C1_TransitionLegality ==
  [][\A s \in Sessions, n \in Status :
       ( /\ ClickStatus(s, n)
         /\ selectedDeliveryId[s] \in DOMAIN dbDeliveries
         /\ <<role(s), dbDeliveries[selectedDeliveryId[s]].status, n>> \notin TransitionTable )
       => ( /\ dbDeliveries' = dbDeliveries
            /\ inflight' = inflight
            /\ ErrorToastPushed(s) )]_vars

\* C2: once the stored status of a delivery is APROVADO, no step changes it.
C2_ApprovedIsTerminal ==
  [][\A d \in DOMAIN dbDeliveries :
       (dbDeliveries[d].status = "APROVADO" /\ d \in DOMAIN dbDeliveries')
       => dbDeliveries'[d].status = "APROVADO"]_vars

\* the notification an admin's transition owes the assigned contractor
ContractorNotif(id, n) ==
  Notif(dbDeliveries[id].providerUid,
        IF n = "AJUSTES" THEN "ADJUST_REQUESTED" ELSE "APPROVED", dbDeliveries[id], id)

AdminSettles(s) ==
  /\ NotifySettle(s)
  /\ inflight[s].op = "status"
  /\ \E m \in inflight[s].out : m.type \in {"ADJUST_REQUESTED", "APPROVED"}

\* every successful admin transition to AJUSTES or APROVADO starts exactly
\* the one notification write owed to the contractor
AdminTransitionNotifies ==
  \A s \in Sessions, n \in {"AJUSTES", "APROVADO"} :
    ( /\ ClickStatus(s, n)
      /\ role(s) = "ADMIN"
      /\ StatusWritten(s, selectedDeliveryId[s], n) )
    => inflight'[s] = [op |-> "status", out |-> {ContractorNotif(selectedDeliveryId[s], n)}]

\* C5 as stated: each successful ADMIN transition to AJUSTES (APROVADO)
\* creates exactly one ADJUST_REQUESTED (APPROVED) notification, unread,
\* addressed to the delivery's providerUid, and nothing for anyone else.
C5_ExactlyOneContractorNotif ==
  [][ /\ AdminTransitionNotifies
      /\ \A s \in Sessions :
           AdminSettles(s) => /\ Created = inflight[s].out
                              /\ Len(dbNotifications') = Len(dbNotifications) + 1 ]_vars

\* C5 amended: each successful ADMIN transition to AJUSTES (APROVADO) issues
\* exactly one notification write, ADJUST_REQUESTED (APPROVED), unread,
\* addressed to the delivery's providerUid; that notification is created
\* unless the store rejects the write, in which case none is created and an
\* error toast is pushed; no other user is notified.
C5_ContractorNotifBestEffort ==
  [][ /\ AdminTransitionNotifies
      /\ \A s \in Sessions :
           AdminSettles(s) =>
             \/ /\ Created = inflight[s].out
                /\ Len(dbNotifications') = Len(dbNotifications) + 1
                /\ toasts' = toasts
             \/ /\ dbNotifications' = dbNotifications
                /\ ErrorToastPushed(s) ]_vars

\* an admin moved delivery 1 to AJUSTES and the contractor got the notification
C5_Witness ==
  /\ dbDeliveries[1].status = "AJUSTES"
  /\ \E i \in DOMAIN dbNotifications :
       dbNotifications[i] = [toUid |-> "U1", type |-> "ADJUST_REQUESTED", deliveryId |-> 1, read |-> FALSE]

\* C6: the stored status of a delivery changes only in a step that is a
\* status write of setDeliveryStatus; a notification write that fails after
\* the status write leaves the stored status at the requested value.
C6_NotifFailureKeepsStatus ==
  [][ /\ \A d \in DOMAIN dbDeliveries \cap DOMAIN dbDeliveries' :
           dbDeliveries'[d].status # dbDeliveries[d].status
           => \E s \in Sessions :
                /\ selectedDeliveryId[s] = d
                /\ ClickStatus(s, dbDeliveries'[d].status)
      /\ \A s \in Sessions :
           (NotifySettle(s) /\ Created # inflight[s].out) => dbDeliveries' = dbDeliveries ]_vars

\* the admin's write of AJUSTES went through, the notification write that
\* followed was rejected (notifications are never deleted), the status stays
C6_Witness ==
  /\ dbDeliveries[1].status = "AJUSTES"
  /\ inflight["s1"] = NoWrites
  /\ \A i \in DOMAIN dbNotifications : dbNotifications[i].type # "ADJUST_REQUESTED"

\* C8: a stored notification that is read stays read; notifications are
\* created unread; the only change to a stored notification sets read.
C8_MonotonicRead ==
  [][ /\ \A n \in DOMAIN dbNotifications :
           /\ n \in DOMAIN dbNotifications'
           /\ dbNotifications[n].read => dbNotifications'[n].read
           /\ \/ dbNotifications'[n] = dbNotifications[n]
              \/ dbNotifications'[n] = [dbNotifications[n] EXCEPT !.read = TRUE]
      /\ \A n \in DOMAIN dbNotifications' \ DOMAIN dbNotifications :
           ~dbNotifications'[n].read ]_vars

\* a notification was marked read while another one is still unread
C8_Witness ==
  /\ \E n \in DOMAIN dbNotifications : dbNotifications[n].read
  /\ \E n \in DOMAIN dbNotifications : ~dbNotifications[n].read

\* C3: a session whose profile role is PRESTADOR holds only projects it is a
\* member of and only deliveries assigned to it; a snapshot delivered to an
\* ADMIN session carries every project and every delivery.
ScopeHeld ==
  \A s \in Sessions :
    (profile[s] # NoProfile /\ profile[s].role = "PRESTADOR")
    => /\ \A p \in DOMAIN projects[s] : profile[s].uid \in projects[s][p].memberUids
       /\ \A d \in DOMAIN deliveries[s] : deliveries[s][d].providerUid = profile[s].uid

C3_ScopeContainment ==
  [][ /\ ScopeHeld'
      /\ \A s \in Sessions :
           /\ (SnapshotProjects(s) /\ role(s) = "ADMIN") => projects'[s] = dbProjects
           /\ (SnapshotDeliveries(s) /\ role(s) = "ADMIN") => deliveries'[s] = dbDeliveries ]_vars

\* the users the store holds as usable admins
ActiveAdmins ==
  {u \in DOMAIN dbUsers : dbUsers[u].role = "ADMIN" /\ dbUsers[u].active /\ dbUsers[u].status = "ACTIVE"}

\* C4: a PRESTADOR's successful move to REVISAO creates exactly one unread
\* SUBMITTED notification for each user that is currently an active admin and
\* none for anyone else; a PRESTADOR's comment creates one COMMENT
\* notification per such admin; an ADMIN's comment creates none.
C4_AdminFanout ==
  [][\A s \in Sessions :
       /\ ( /\ ClickStatus(s, "REVISAO")
            /\ role(s) = "PRESTADOR"
            /\ StatusWritten(s, selectedDeliveryId[s], "REVISAO") )
          => inflight'[s].out =
               {Notif(a, "SUBMITTED", dbDeliveries[selectedDeliveryId[s]], selectedDeliveryId[s]) :
                  a \in ActiveAdmins}
       /\ (ClickPublish(s) /\ CommentWritten(s, selectedDeliveryId[s]))
          => inflight'[s].out =
               IF role(s) = "PRESTADOR"
               THEN {Notif(a, "COMMENT", dbDeliveries[selectedDeliveryId[s]], selectedDeliveryId[s]) :
                       a \in ActiveAdmins}
               ELSE {}
       /\ NotifySettle(s)
          => /\ Created = inflight[s].out
             /\ Len(dbNotifications') = Len(dbNotifications) + Cardinality(inflight[s].out) ]_vars

\* C7: after deleteProject(P) completed without a store failure, no delivery
\* with projectId = P is left and the project document is gone.
C7_CascadeComplete ==
  [][\A s \in Sessions :
       ( /\ deleteProjectCommit(s)
         /\ Head(toasts'[s]).type = "success" )
       => /\ batch[s].projectId \notin DOMAIN dbProjects'
          /\ \A d \in DOMAIN dbDeliveries' : dbDeliveries'[d].projectId # batch[s].projectId ]_vars

\* C9: soft-deleting a user that is already DELETED changes nothing in the
\* store, deletedAt included.
C9_IdempotentSoftDelete ==
  [][\A s \in Sessions, u \in Uids :
       ( /\ ClickRemove(s, u)
         /\ softDeleteUser(u)
         /\ dbUsers[u].status = "DELETED" )
       => dbUsers' = dbUsers ]_vars

\* C10: every delivery document written has a providerUid that is a member
\* of its project in the store at the time of the write; a save whose
\* provider is not a member of the project writes nothing and reports an error.
C10_AssigneeIsMember ==
  [][ /\ \A d \in DOMAIN dbDeliveries' \ DOMAIN dbDeliveries :
           /\ dbDeliveries'[d].projectId \in DOMAIN dbProjects
           /\ dbDeliveries'[d].providerUid \in dbProjects[dbDeliveries'[d].projectId].memberUids
      /\ \A s \in Sessions :
           ( /\ saveDelivery(s)
             /\ deliveryForm[s].projectId \in DOMAIN dbProjects
             /\ deliveryForm[s].providerUid \notin dbProjects[deliveryForm[s].projectId].memberUids )
           => (dbDeliveries' = dbDeliveries /\ ErrorToastPushed(s)) ]_vars

\* the loaded profile is usable
Usable(s) == profile[s] # NoProfile /\ profile[s].active /\ profile[s].status = "ACTIVE"

\* a step in which a listener of session s delivers a snapshot
SnapshotStep(s) ==
  SnapshotUsers(s) \/ SnapshotProjects(s) \/ SnapshotDeliveries(s) \/ SnapshotNotifications(s)

\* a step in which session s uses a control of a working view
WorkingViewStep(s) ==
  \/ \E v \in {"DASHBOARD", "PROJETOS", "ENTREGAS", "USUARIOS", "PRESTADORES", "PERFIL"} : onNav(s, v)
  \/ \E d \in DOMAIN deliveries[s] : OpenDelivery(s, d)
  \/ \E u \in Uids, r \in UserRole : ClickApprove(s, u, r)
  \/ \E u \in Uids : ClickReject(s, u) \/ ClickRemove(s, u)

\* C11: a session holds live subscriptions or renders a working view only if
\* its loaded profile is active with status ACTIVE; a session whose loaded
\* profile is not usable receives no snapshot and can use no control of a
\* working view (the pending screen offers sign-out only).
C11_UsableProfileGate ==
  [][\A s \in Sessions :
       /\ (Subscribed(s) \/ ShellRendered(s)) => Usable(s)
       /\ (SnapshotStep(s) \/ WorkingViewStep(s)) => Usable(s)
       /\ (user[s] # None /\ profile[s] # NoProfile /\ ~Usable(s) /\ user'[s] # user[s])
          => doLogout(s) ]_vars

\* U1 was approved, received its deliveries, was removed, and its session
\* shows the pending screen again
C11_Witness ==
  /\ profile["s2"].status = "DELETED"
  /\ user["s2"] = "U1"
  /\ deliveries["s2"] # Empty

\* C12: rejecting a user whose stored status is PENDING leaves the stored
\* profile with status REJECTED and active false, keeps its role and every
\* other profile, and creates no notification document.
C12_RejectPending ==
  [][\A s \in Sessions, u \in Uids :
       ( /\ ClickReject(s, u)
         /\ rejectUserSvc(u)
         /\ dbUsers[u].status = "PENDING" )
       => /\ dbUsers'[u].status = "REJECTED"
          /\ dbUsers'[u].active = FALSE
          /\ dbUsers'[u].role = dbUsers[u].role
          /\ \A w \in DOMAIN dbUsers \ {u} : dbUsers'[w] = dbUsers[w]
          /\ dbNotifications' = dbNotifications ]_vars

\* a pending user was rejected and the admin saw the confirmation
C12_Witness ==
  /\ \E u \in DOMAIN dbUsers : dbUsers[u].status = "REJECTED" /\ dbUsers[u].role = "PRESTADOR"
  /\ \E s \in Sessions : toasts[s] # <<>> /\ Head(toasts[s]).title = "Usuario rejeitado"

\* C13: a contractor's move of a delivery to REVISAO leaves the stored status
\* unchanged when the stored delivery has no attachment record.
C13_SubmissionNeedsAttachment ==
  [][\A s \in Sessions :
       ( /\ ClickStatus(s, "REVISAO")
         /\ role(s) = "PRESTADOR"
         /\ selectedDeliveryId[s] \in DOMAIN dbDeliveries
         /\ dbDeliveries[selectedDeliveryId[s]].attachments = <<>> )
       => dbDeliveries'[selectedDeliveryId[s]].status = dbDeliveries[selectedDeliveryId[s]].status ]_vars

\* a step of session s in which one of the three entry paths had its profile
\* write for identity u accepted
EntryPathWrote(s, u) ==
  \/ CreateDefaultProfile(s) /\ authPending[s] = u /\ profile'[s] # profile[s]
  \/ SignupWrite(s) /\ authFlow[s].uid = u /\ Head(toasts'[s]).type = "success"
  \/ GoogleWrite(s) /\ authFlow[s].uid = u /\ authFlow[s].service = "googleCreate"
                    /\ Head(toasts'[s]).type = "success"

\* C14: every profile document that comes into existence has role PRESTADOR,
\* status PENDING and active false, and each entry path (the auth-state
\* listener, signupEmail, loginGoogle) whose profile write is accepted for an
\* identity without a profile document creates exactly that document.
C14_FirstSignInProfile ==
  [][ /\ \A u \in DOMAIN dbUsers' \ DOMAIN dbUsers :
           /\ dbUsers'[u].role = "PRESTADOR"
           /\ dbUsers'[u].status = "PENDING"
           /\ dbUsers'[u].active = FALSE
      /\ \A s \in Sessions, u \in Uids :
           (EntryPathWrote(s, u) /\ u \notin DOMAIN dbUsers)
           => /\ u \in DOMAIN dbUsers'
              /\ dbUsers'[u].role = "PRESTADOR"
              /\ dbUsers'[u].status = "PENDING"
              /\ dbUsers'[u].active = FALSE ]_vars

\* U1 signed in for the first time and its session shows the pending screen
\* with the profile the listener created
C14_Witness ==
  /\ "U1" \in DOMAIN dbUsers
  /\ dbUsers["U1"].status = "PENDING"
  /\ \E s \in Sessions : user[s] = "U1" /\ profile[s] # NoProfile /\ view[s] = "PENDING"

C16_ListingFilter ==
  \A s \in Sessions : \A u \in DOMAIN usersList[s] :
    /\ usersList[s][u].status # "DELETED"
    /\ (profile[s] # NoProfile /\ role(s) = "PRESTADOR")
       => (usersList[s][u].status = "ACTIVE" /\ usersList[s][u].active)

\* the profile of session s is missing or is not an admin's
NonAdmin(s) == profile[s] = NoProfile \/ profile[s].role # "ADMIN"

\* a step of session s that submits a form or credentials the claim calls
\* invalid or unauthorized
RejectedSubmit(s) ==
  \/ \E c, n \in BlankTexts \cup Texts :
       /\ NonAdmin(s) \/ c \in BlankTexts \/ n \in BlankTexts
       /\ \/ saveProject(s, c, n)
          \/ \E p \in ProjectIds, m \in {{}, {"U1"}} : saveProjectEditsForm(s, p, m, c, n)
  \/ \E title \in BlankTexts \cup Texts, d \in WellFormedDates \cup MalformedDates :
       \/ /\ \/ NonAdmin(s)
             \/ deliveryForm[s].projectId \notin DOMAIN projects[s]
             \/ title \in BlankTexts
             \/ d \in MalformedDates
             \/ deliveryForm[s].providerUid = ""
          /\ saveDeliveryForm(s, title, d)
       \/ \E prov \in {None, "U1"}, x \in {<<>>} \cup WellFormedDates \cup MalformedDates :
            /\ title \in BlankTexts \/ d \in MalformedDates \/ x \in MalformedDates \ {<<>>}
            /\ saveSafetyDoc(s, prov, title, d, x)
  \/ \E e \in WellFormedEmails \cup MalformedEmails, pw \in ShortPasswords \cup LongPasswords :
       /\ e \in MalformedEmails \/ pw \in ShortPasswords
       /\ \/ \E u \in {"A1", "U1"} : doLogin(s, e, pw, u)
          \/ \E n \in BlankTexts \cup Texts : doSignupForm(s, n, e, pw, "U2")

\* C17: a submission that fails validation or authorization (saveProject,
\* saveProjectEdits or saveDelivery by a non-admin; an empty client or name;
\* no project, an empty title, a malformed deadline or no provider; a safety
\* record with an empty title or a malformed date; a sign-in or sign-up with
\* a malformed email or a password shorter than 6 characters) leaves the
\* document store and the identity provider as they were.
C17_NoWriteOnInvalid ==
  [][\A s \in Sessions :
       \/ UNCHANGED <<dbUsers, dbProjects, dbDeliveries, dbNotifications, dbSafetyDocs,
                      nextDeliveryId, accounts, user, authPending, authFlow>>
       \/ ~RejectedSubmit(s) ]_vars

\* the admin submitted the delivery form with a malformed deadline, was told
\* so, and no delivery was created
C17_Witness ==
  /\ toasts["s1"] # <<>>
  /\ Head(toasts["s1"]).title = "Informe um prazo valido"
  /\ deliveryForm["s1"].providerUid = "U1"
  /\ nextDeliveryId = MaxDeliveryId

\* the comments stored on delivery d
StoredComments(db, d) == {db[d].comments[i] : i \in 1..Len(db[d].comments)}

\* C18: a comment stored on a delivery stays in the stored comments array of
\* that delivery for as long as the delivery exists, whatever the other
\* sessions write.
C18_CommentsAppendOnly ==
  [][\A d \in DOMAIN dbDeliveries \cap DOMAIN dbDeliveries' :
       StoredComments(dbDeliveries, d) \subseteq StoredComments(dbDeliveries', d) ]_vars

\* a step in which an admin's approval, rejection or removal is written
AdminWrite ==
  \E s \in Sessions, u \in Uids :
    \/ \E r \in UserRole : ClickApprove(s, u, r) /\ approveUserSvc(u, r)
    \/ ClickReject(s, u) /\ rejectUserSvc(u)
    \/ ClickRemove(s, u) /\ softDeleteUser(u)

\* C19: role, status and active of a profile document that exists change
\* only in a step in which an admin's approveUser, rejectUser or
\* softDeleteUser is written; no profile write of signupEmail, of loginGoogle
\* or of the auth-state listener changes them.
C19_OnlyAdminsChangeAuthorization ==
  [][\A u \in DOMAIN dbUsers :
       ( u \in DOMAIN dbUsers'
         /\ <<dbUsers'[u].role, dbUsers'[u].status, dbUsers'[u].active>>
            # <<dbUsers[u].role, dbUsers[u].status, dbUsers[u].active>> )
       => AdminWrite ]_vars

\* C20: every stored profile has active true exactly when its status is ACTIVE.
C20_ActiveIffStatusActive ==
  \A u \in DOMAIN dbUsers : dbUsers[u].active <=> (dbUsers[u].status = "ACTIVE")

\* U1 signed up, was approved, rejected or removed by the admin, and a late
\* profile write of a sign-in flow has not made active and status disagree
C20_Witness ==
  /\ "U1" \in DOMAIN dbUsers
  /\ dbUsers["U1"].status = "ACTIVE" /\ dbUsers["U1"].active
  /\ \E s \in Sessions : toasts[s] # <<>> /\ Head(toasts[s]).title = "Usuario aprovado"

\* C21: when a deleteProject batch that removes project P commits, every
\* delivery of P in the store is in the batch, so that none is left behind
\* without its project, also when another admin created a delivery for P
\* after the batch's query.
C21_NoOrphanAfterDelete ==
  [][\A s \in Sessions :
       ( /\ deleteProjectCommit(s)
         /\ batch[s].projectId \in DOMAIN dbProjects
         /\ batch[s].projectId \notin DOMAIN dbProjects' )
       => \A d \in DOMAIN dbDeliveries \ batch[s].refs :
            dbDeliveries[d].projectId # batch[s].projectId ]_vars

\* C22: when the notification writes of one fan-out to the admins have
\* settled, either every one of them is in the store or none is.
C22_FanoutAllOrNothing ==
  [][\A s \in Sessions :
       (NotifySettle(s) /\ \A m \in inflight[s].out : m.type \in {"SUBMITTED", "COMMENT"})
       => (Created = inflight[s].out \/ Created = {}) ]_vars

\* C23: once the status write of setDeliveryStatus has gone through, the
\* settling of its notification writes never reports the status update as
\* failed.
C23_NotifFailureIsNotStatusFailure ==
  [][\A s \in Sessions :
       (NotifySettle(s) /\ inflight[s].op = "status" /\ toasts'[s] # toasts[s])
       => Head(toasts'[s]).title # "Erro ao atualizar status" ]_vars

\* C24: a setDeliveryStatus attempt that reports an error left the stored
\* deliveries and notifications as they were, started no notification write,
\* and pushed exactly one toast, the error; nothing repeats the write: the
\* stored status of a delivery changes only in a step that is a click on a
\* status button.
C24_RejectedStatusWrite ==
  [][ /\ \A s \in Sessions, n \in Status :
           (ClickStatus(s, n) /\ ErrorToastPushed(s))
           => /\ dbDeliveries' = dbDeliveries
              /\ dbNotifications' = dbNotifications
              /\ inflight' = inflight
              /\ Tail(toasts'[s]) = toasts[s]
              /\ \A r \in Sessions \ {s} : toasts'[r] = toasts[r]
      /\ \A d \in DOMAIN dbDeliveries \cap DOMAIN dbDeliveries' :
           dbDeliveries'[d].status # dbDeliveries[d].status
           => \E s \in Sessions, n \in Status : ClickStatus(s, n) ]_vars

\* the contractor's attempt to send delivery 1 to review was rejected: the
\* error is on screen, the delivery is still PENDENTE, nobody was notified
C24_Witness ==
  /\ toasts["s2"] # <<>>
  /\ Head(toasts["s2"]).title = "Erro ao atualizar status"
  /\ dbDeliveries[1].status = "PENDENTE"
  /\ dbNotifications = <<>>
  /\ inflight["s2"] = NoWrites

\* C25: the commit of a deleteProject batch removes the project document and
\* every delivery its query returned, or, when it is rejected, removes
\* nothing.
C25_BatchAllOrNothing ==
  [][\A s \in Sessions :
       deleteProjectCommit(s)
       => \/ /\ batch[s].projectId \notin DOMAIN dbProjects'
             /\ batch[s].refs \cap DOMAIN dbDeliveries' = {}
             /\ \A d \in DOMAIN dbDeliveries \ batch[s].refs :
                  d \in DOMAIN dbDeliveries' /\ dbDeliveries'[d] = dbDeliveries[d]
          \/ /\ dbProjects' = dbProjects
             /\ dbDeliveries' = dbDeliveries ]_vars

\* the admin deleted project P1 and the delivery its query had returned
C25_Witness ==
  /\ "P1" \notin DOMAIN dbProjects
  /\ 1 \notin DOMAIN dbDeliveries
  /\ toasts["s1"] # <<>> /\ Head(toasts["s1"]).title = "Projeto excluido"

\* the statuses a stored delivery may have
PersistedStatus == {"PENDENTE", "REVISAO", "AJUSTES", "APROVADO"}

\* C26: every stored delivery has status PENDENTE, REVISAO, AJUSTES or
\* APROVADO, never ATRASADO; a delivery is created with status PENDENTE and
\* no status write stores ATRASADO.
C26_LateIsNeverStored ==
  /\ [](\A d \in DOMAIN dbDeliveries : dbDeliveries[d].status \in PersistedStatus)
  /\ [][\A d \in DOMAIN dbDeliveries' :
          /\ d \notin DOMAIN dbDeliveries => dbDeliveries'[d].status = "PENDENTE"
          /\ \A s \in Sessions : ~ClickStatus(s, "ATRASADO") ]_vars

\* delivery 1 went through review to APROVADO and a second delivery was created
C26_Witness ==
  /\ dbDeliveries[1].status = "APROVADO"
  /\ MaxDeliveryId \in DOMAIN dbDeliveries /\ dbDeliveries[MaxDeliveryId].status = "PENDENTE"

\* the documents in the lists of session s that user u's own subscriptions
\* could not have delivered to a profile with role r
ForeignDocs(s, u, r) ==
  [users |-> IF r = "ADMIN" THEN {}
             ELSE {x \in DOMAIN usersList[s] :
                     ~(usersList[s][x].status = "ACTIVE" /\ usersList[s][x].active)},
   projects |-> IF r = "ADMIN" THEN {}
                ELSE {p \in DOMAIN projects[s] : u \notin projects[s][p].memberUids},
   deliveries |-> IF r = "ADMIN" THEN {}
                  ELSE {d \in DOMAIN deliveries[s] : deliveries[s][d].providerUid # u},
   notifications |-> {n \in DOMAIN notifications[s] : notifications[s][n].toUid # u}]

\* C27: at the step in which a sign-in brings up a working view for the user
\* of session s, the users, projects, deliveries and notifications lists of
\* the session hold no document from outside that user's scoped
\* subscriptions.
C27_ListsIsolatedAtEntry ==
  [][\A s \in Sessions :
       (LoadProfile(s) /\ ShellRendered(s)')
       => ForeignDocs(s, user[s], profile'[s].role) =
            [users |-> {}, projects |-> {}, deliveries |-> {}, notifications |-> {}] ]_vars

\* C28: whenever a session holds a usable profile while its view is still
\* PENDING (the live snapshot delivered an approval), the view eventually
\* becomes the home view of the role, unless the profile stops being usable.
C28_ApprovedLeavesPending ==
  \A s \in Sessions :
    (Usable(s) /\ view[s] = "PENDING")
      ~> (~Usable(s) \/ view[s] = EntryViewByRole(profile[s]))

\* C29: the user-management actions never leave the store without a profile
\* that is role ADMIN, active and status ACTIVE.
C29_SomeAdminStaysUsable == ActiveAdmins # {}

\* C30: when the continuation of the one-shot read runs in a session whose
\* profile already is the newest stored one (the live snapshot came first),
\* the profile still is the newest stored one afterwards, and the view stays
\* PENDING if that profile is not usable.
C30_OneShotNeverReplacesNewer ==
  [][\A s \in Sessions :
       (DeliverProfile(s) /\ user[s] \in DOMAIN dbUsers /\ profile[s] = dbUsers[user[s]])
       => /\ profile'[s] = dbUsers[user[s]]
          /\ (~Usable(s)' => view'[s] = "PENDING") ]_vars

====
